---- MODULE Spec2Model ----
(***************************************************************************)
(* A model of the go-sieve evaluator: the semantic loader (extension       *)
(* gating of commands and tests) and the interpreter's action semantics    *)
(* (implicit keep, :copy, vacation, imap4flags, size test).                *)
(*                                                                         *)
(* Two specifications:                                                     *)
(*   SpecLoad - Load applied to scripts `require R; <construct>` drawn     *)
(*              from bounded sets, under a host-enabled extension set.     *)
(*   Spec     - Script.Execute on one RuntimeData: the commands of a       *)
(*              loaded script executed one after another.                  *)
(***************************************************************************)
EXTENDS Integers, Sequences, FiniteSets, TLC

\* ---------------------------------------------------------------- bounds
\* number of commands one evaluation executes
MaxSteps == 3
\* message sizes and size-test operands range over 0..MaxSize
MaxSize == 2

\* number of extension names a script handed to Load requires
MaxRequire == 2

\* ------------------------------------------------------------- utilities
Range(s) == {s[i] : i \in 1..Len(s)}

\* optional tag values of the parsed argument list: <<>> absent, <<v>> given
None == <<>>
Some(v) == <<v>>

EmptyMap == [k \in {} |-> k]
MapPut(m, k, v) == [x \in (DOMAIN m) \cup {k} |-> IF x = k THEN v ELSE m[x]]

NoErr == ""

\* ------------------------------------------------------------ extensions
\* the extensions a script can name in `require`
Extensions ==
    {"fileinto", "envelope", "encoded-character",
     "comparator-i;octet", "comparator-i;ascii-casemap",
     "comparator-i;ascii-numeric", "comparator-i;unicode-casemap",
     "imap4flags", "variables", "relational", "vacation", "copy", "regex",
     "date", "index", "editheader", "mailbox", "subaddress"}

\* DovecotTestExtension: the name that brings in the test dialect
DovecotTestExtension == "vnd.dovecot.testsuite"

\* Options.EnabledExtensions: a nil slice or a list of names; Load hands a
\* nil slice on, and a nil slice restricts nothing
HostNil == [nil |-> TRUE, names |-> {}]
HostOf(S) == [nil |-> FALSE, names |-> S]

\* Script.RequiresExtension: the name was declared by a require statement
RequiresExtension(s, name) == name \in s.extensions

\* DefaultOptions().Interp.MaxRedirects
DefaultMaxRedirects == 5

\* results of loaders and of Execute/Check: err = NoErr on success
Ok(v) == [err |-> NoErr, val |-> v]
Fail(msg) == [err |-> msg, val |-> <<>>]

\* ---------------------------------------------------------------- strings
\* the bytes of the strings used as addresses, address parts and keys
AddressBytes ==
    ("Tue, 1 Apr 1997 09:06:31 -0800 (PST)" :> <<84, 117, 101, 44, 32, 49, 32, 65, 112, 114, 32, 49, 57, 57, 55, 32, 48, 57, 58, 48, 54, 58, 51, 49, 32, 45, 48, 56, 48, 48, 32, 40, 80, 83, 84, 41>>) @@
    ("17" :> <<49, 55>>) @@
    ("02" :> <<48, 50>>) @@
    ("09" :> <<48, 57>>) @@
    ("1990" :> <<49, 57, 57, 48>>) @@
    ("2020" :> <<50, 48, 50, 48>>) @@
    ("k" :> <<107>>) @@
    ("2026" :> <<50, 48, 50, 54>>) @@
    ("subject" :> <<115, 117, 98, 106, 101, 99, 116>>) @@
    ("date" :> <<100, 97, 116, 101>>) @@
    ("cc" :> <<99, 99>>) @@
    ("1 Apr 1997 09:06:31 -0800" :> <<49, 32, 65, 112, 114, 32, 49, 57, 57, 55, 32, 48, 57, 58, 48, 54, 58, 51, 49, 32, 45, 48, 56, 48, 48>>) @@
    ("year" :> <<121, 101, 97, 114>>) @@
    ("1997" :> <<49, 57, 57, 55>>) @@
    ("ge" :> <<103, 101>>) @@
    ("u@x (c)" :> <<117, 64, 120, 32, 40, 99, 41>>) @@
    ("MAILER-DAEMON" :> <<77, 65, 73, 76, 69, 82, 45, 68, 65, 69, 77, 79, 78>>)
    @@ ("MAILER-DAEMON@" :> <<77, 65, 73, 76, 69, 82, 45, 68, 65, 69, 77, 79, 78, 64>>) @@
    ("u@x" :> <<117, 64, 120>>) @@ ("u+d@x" :> <<117, 43, 100, 64, 120>>) @@
    ("u+d+e@x" :> <<117, 43, 100, 43, 101, 64, 120>>) @@
    ("u+@x" :> <<117, 43, 64, 120>>) @@ ("+d@x" :> <<43, 100, 64, 120>>) @@
    ("u@" :> <<117, 64>>) @@ ("@x" :> <<64, 120>>) @@ ("b@x" :> <<98, 64, 120>>) @@
    ("c@x" :> <<99, 64, 120>>) @@ ("<c@x>" :> <<60, 99, 64, 120, 62>>) @@
    ("<>" :> <<60, 62>>) @@ ("bad" :> <<98, 97, 100>>) @@
    ("<bad>" :> <<60, 98, 97, 100, 62>>) @@
    ("<u+d@x>" :> <<60, 117, 43, 100, 64, 120, 62>>) @@
    ("<@h:u@x>" :> <<60, 64, 104, 58, 117, 64, 120, 62>>) @@
    ("<h:u@x>" :> <<60, 104, 58, 117, 64, 120, 62>>) @@
    ("<u@x@x>" :> <<60, 117, 64, 120, 64, 120, 62>>) @@
    ("postmaster" :> <<112, 111, 115, 116, 109, 97, 115, 116, 101, 114>>) @@
    ("u" :> <<117>>) @@ ("d" :> <<100>>) @@ ("d+e" :> <<100, 43, 101>>) @@
    ("u+d" :> <<117, 43, 100>>) @@ ("+d" :> <<43, 100>>) @@ ("x" :> <<120>>) @@
    ("0" :> <<48>>) @@ ("1" :> <<49>>) @@ ("2" :> <<50>>) @@ ("3" :> <<51>>) @@
    ("to" :> <<116, 111>>) @@ ("from" :> <<102, 114, 111, 109>>) @@
    ("auth" :> <<97, 117, 116, 104>>) @@ ("To" :> <<84, 111>>) @@
    ("Cc" :> <<67, 99>>) @@ ("Date" :> <<68, 97, 116, 101>>) @@
    ("<u@x>" :> <<60, 117, 64, 120, 62>>) @@
    ("u@x, u+d@x" :> <<117, 64, 120, 44, 32, 117, 43, 100, 64, 120>>) @@
    ("(c) u@x" :> <<40, 99, 41, 32, 117, 64, 120>>) @@ ("u+" :> <<117, 43>>)

\* the bytes of the strings used as header field names, values and patterns;
\* "X<09>", "X<7F>" and "X<E9>" stand for X followed by the byte named
ByteTable ==
    ("" :> <<>>) @@ ("X-Test" :> <<88, 45, 84, 101, 115, 116>>)
    @@ ("x-test" :> <<120, 45, 116, 101, 115, 116>>)
    @@ ("Received" :> <<82, 101, 99, 101, 105, 118, 101, 100>>)
    @@ ("RECEIVED" :> <<82, 69, 67, 69, 73, 86, 69, 68>>)
    @@ ("Auto-Submitted" :>
          <<65, 117, 116, 111, 45, 83, 117, 98, 109, 105, 116, 116, 101, 100>>)
    @@ ("Subject" :> <<83, 117, 98, 106, 101, 99, 116>>)
    @@ ("X Bad" :> <<88, 32, 66, 97, 100>>) @@ ("X:Bad" :> <<88, 58, 66, 97, 100>>)
    @@ ("X<09>" :> <<88, 9>>) @@ ("X<7F>" :> <<88, 127>>) @@ ("X<E9>" :> <<88, 233>>)
    @@ ("!~" :> <<33, 126>>)
    @@ ("a" :> <<97>>) @@ ("A" :> <<65>>) @@ ("b" :> <<98>>) @@ ("B" :> <<66>>) @@ (" a " :> <<32, 97, 32>>)
    @@ ("ab" :> <<97, 98>>)
    @@ ("received" :> <<114, 101, 99, 101, 105, 118, 101, 100>>)
    @@ ("auto-submitted" :>
          <<97, 117, 116, 111, 45, 115, 117, 98, 109, 105, 116, 116, 101, 100>>)
    @@ AddressBytes
Bytes(str) == ByteTable[str]

\* the string of the bytes bs
Str(bs) == CHOOSE str \in DOMAIN ByteTable : ByteTable[str] = bs

\* toLowerASCII, on the bytes of a string
toLowerASCII(bs) == [i \in 1..Len(bs) |-> IF 65 <= bs[i] /\ bs[i] <= 90 THEN bs[i] + 32 ELSE bs[i]]

\* strings.EqualFold on ASCII strings
EqualFold(a, b) == toLowerASCII(Bytes(a)) = toLowerASCII(Bytes(b))

RECURSIVE TrimLeft(_)
TrimLeft(bs) ==
    IF bs # <<>> /\ Head(bs) \in {9, 10, 11, 12, 13, 32} THEN TrimLeft(Tail(bs)) ELSE bs
RECURSIVE TrimRight(_)
TrimRight(bs) ==
    IF bs # <<>> /\ bs[Len(bs)] \in {9, 10, 11, 12, 13, 32}
    THEN TrimRight(SubSeq(bs, 1, Len(bs) - 1)) ELSE bs
\* strings.TrimSpace, on the bytes of a string
TrimSpace(bs) == TrimRight(TrimLeft(bs))

\* strings.Contains, on bytes
Contains(bs, sub) ==
    \E i \in 0..(Len(bs) - Len(sub)) : SubSeq(bs, i + 1, i + Len(sub)) = sub

\* strings.HasPrefix and strings.HasSuffix, on bytes
HasPrefix(bs, p) == Len(bs) >= Len(p) /\ SubSeq(bs, 1, Len(p)) = p
HasSuffix(bs, p) == Len(bs) >= Len(p) /\ SubSeq(bs, Len(bs) - Len(p) + 1, Len(bs)) = p

\* strings.Count for one byte
CountByte(bs, b) == Cardinality({i \in 1..Len(bs) : bs[i] = b})

\* strings.IndexByte and strings.LastIndexByte, 1-based, 0 when b is absent
IndexByte(bs, b) ==
    IF CountByte(bs, b) = 0 THEN 0
    ELSE CHOOSE i \in 1..Len(bs) : bs[i] = b /\ \A j \in 1..(i - 1) : bs[j] # b
LastIndexByte(bs, b) ==
    IF CountByte(bs, b) = 0 THEN 0
    ELSE CHOOSE i \in 1..Len(bs) : bs[i] = b /\ \A j \in (i + 1)..Len(bs) : bs[j] # b

\* -------------------------------------------------------- matcher (load)
\* newMatcherTest: comparator and match-type defaults
newMatcherTest ==
    [comparator |-> "i;ascii-casemap", match |-> "is", relational |-> "", key |-> <<>>]

\* the value of the tag `name` of a parsed test, dflt when the tag is absent
TagOf(p, name, dflt) == IF name \in DOMAIN p THEN p[name] ELSE dflt

\* matcherTest.addSpecTags, LoadSpec having bound the tags of the parsed
\* construct p: the :comparator tag, the match-type tags (p.match, the tag
\* names in the order given; each sets the match-type, so the last one
\* stays) and the relational operator of :value and :count
addSpecTags(p) ==
    [comparator |-> TagOf(p, "comparator", newMatcherTest.comparator),
     match |-> IF Len(p.match) > 0 THEN p.match[Len(p.match)] ELSE newMatcherTest.match,
     relational |-> TagOf(p, "relational", newMatcherTest.relational),
     key |-> newMatcherTest.key]

\* the match-type tags LoadSpec bound, counted
matchCnt(p) == Len(p.match)

\* matcherTest.setKey on the matcher m of p: a second match-type is refused,
\* the keys are stored
setKey(p, m, key) ==
    IF matchCnt(p) > 1 THEN Fail("multiple match-types")
    ELSE Ok([m EXCEPT !.key = key])

\* LoadSpec with the tags of addSpecTags, then setKey, for the loaders that
\* do nothing in between
matcherOf(p, key) == setKey(p, addSpecTags(p), key)

\* strings.ToLower on the strings of the model that hold upper-case letters
LowerTable ==
    ("Seen" :> "seen") @@ ("SEEN" :> "seen") @@ ("Flagged" :> "flagged")
    @@ ("V" :> "v") @@ ("Hour" :> "hour") @@ ("YEAR" :> "year") @@ ("Year" :> "year")
ToLower(str) == IF str \in DOMAIN LowerTable THEN LowerTable[str] ELSE str

\* ----------------------------------------------------------- test loaders
\* loadSizeTest: the tags set Over/Under; a test with both or neither is
\* rejected
loadSizeTest(s, t) ==
    LET Over  == "over" \in t.tags
        Under == "under" \in t.tags
    IN IF Under = Over
       THEN Fail("loadSizeTest: either under or over is required")
       ELSE Ok([op |-> "size", Size |-> t.num, Over |-> Over, Under |-> Under])

loadTrueTest(s, t) == Ok([op |-> "true"])

loadFalseTest(s, t) == Ok([op |-> "false"])

loadExistsTest(s, t) == Ok([op |-> "exists", Fields |-> t.fields])

\* header test loaded without the regex extension check
loadHeaderTestNoRegexCheck(s, t) ==
    LET m == matcherOf(t, t.key)
    IN IF m.err # NoErr THEN m
       ELSE Ok([op |-> "header", matcher |-> m.val,
                Header |-> t.header])

loadHeaderTest(s, t) ==
    LET m == matcherOf(t, t.key)
    IN IF m.err # NoErr THEN m
       ELSE IF m.val.match = "regex" /\ ~RequiresExtension(s, "regex")
            THEN Fail("missing require 'regex'")
            ELSE Ok([op |-> "header", matcher |-> m.val,
                     Header |-> t.header])

\* the address-part tags: the last one given wins, each one is counted
AddressPartOf(parts) == IF Len(parts) = 0 THEN "all" ELSE parts[Len(parts)]
UsesSubaddress(parts) == \E i \in 1..Len(parts) : parts[i] \in {"user", "detail"}

loadAddressTest(s, t) ==
    LET m == matcherOf(t, t.key)
    IN IF m.err # NoErr THEN m
       ELSE IF Len(t.part) > 1
            THEN Fail("multiple address-parts are not allowed")
            ELSE IF UsesSubaddress(t.part) /\ ~RequiresExtension(s, "subaddress")
                 THEN Fail("missing require 'subaddress'")
                 ELSE Ok([op |-> "address", matcher |-> m.val,
                          AddressPart |-> AddressPartOf(t.part),
                          Header |-> t.header])

loadEnvelopeTest(s, t) ==
    IF ~RequiresExtension(s, "envelope")
    THEN Fail("missing require 'envelope'")
    ELSE LET m == matcherOf(t, t.key)
         IN IF m.err # NoErr THEN m
            ELSE IF UsesSubaddress(t.part) /\ ~RequiresExtension(s, "subaddress")
                 THEN Fail("missing require 'subaddress'")
                 ELSE Ok([op |-> "envelope", matcher |-> m.val,
                          AddressPart |-> AddressPartOf(t.part),
                          Field |-> t.field])

loadMailboxExistsTest(s, t) ==
    IF ~RequiresExtension(s, "mailbox")
    THEN Fail("missing require 'mailbox'")
    ELSE Ok([op |-> "mailboxexists", Mailboxes |-> t.mailboxes])

ValidDateParts ==
    {"year", "month", "day", "date", "julian", "hour", "minute", "second",
     "time", "iso8601", "std11", "zone", "weekday"}

Digits == {"0", "1", "2", "3", "4", "5", "6", "7", "8", "9"}

\* strconv.Atoi on a two-character field: digits with an optional sign
AtoiOk2(a, b) == b \in Digits /\ a \in Digits \cup {"+", "-"}

\* parseZoneOffset succeeds: five characters, a sign, hours, minutes
\* (zone strings are sequences of characters)
parseZoneOffsetOk(zone) ==
    /\ Len(zone) = 5
    /\ zone[1] \in {"+", "-"}
    /\ AtoiOk2(zone[2], zone[3])
    /\ AtoiOk2(zone[4], zone[5])

loadDateTest(s, t) ==
    IF ~RequiresExtension(s, "date") THEN Fail("missing require 'date'")
    ELSE LET m == setKey(t, addSpecTags(t), t.key)
             zoneCnt == Len(t.zone) + (IF t.originalzone THEN 1 ELSE 0)
             Index == IF t.index = None THEN 0 ELSE t.index[1]
         IN IF zoneCnt > 1
            THEN Fail("date: cannot specify both :zone and :originalzone")
            ELSE IF t.zone # None /\ t.zone[1] # <<>> /\ ~parseZoneOffsetOk(t.zone[1])
            THEN Fail("date: invalid zone format")
            ELSE IF ToLower(t.datepart) \notin ValidDateParts
            THEN Fail("date: invalid date-part")
            ELSE IF t.last /\ Index = 0
            THEN Fail("date: :last requires :index")
            ELSE IF Index > 0 /\ ~RequiresExtension(s, "index")
            THEN Fail("date: missing require 'index' for :index argument")
            ELSE IF m.err # NoErr THEN m
            ELSE Ok([op |-> "date", matcher |-> m.val, Header |-> t.header,
                     DatePart |-> ToLower(t.datepart), Index |-> Index, Last |-> t.last,
                     Zone |-> t.zone, OriginalZone |-> t.originalzone])

loadCurrentDateTest(s, t) ==
    IF ~RequiresExtension(s, "date") THEN Fail("missing require 'date'")
    ELSE LET m == setKey(t, addSpecTags(t), t.key)
         IN IF t.zone # None /\ t.zone[1] # <<>> /\ ~parseZoneOffsetOk(t.zone[1])
            THEN Fail("currentdate: invalid zone format")
            ELSE IF ToLower(t.datepart) \notin ValidDateParts
            THEN Fail("currentdate: invalid date-part")
            ELSE IF m.err # NoErr THEN m
            ELSE Ok([op |-> "currentdate", matcher |-> m.val,
                     DatePart |-> ToLower(t.datepart), Zone |-> t.zone])

RECURSIVE loadTest(_, _)
RECURSIVE loadTestList(_, _)
\* LoadSpec handing the tests of a test list to AddTest: h the first of
\* them loaded, rest the others; the first error ends the load
loadTestListNext(h, rest) ==
    IF h.err # NoErr THEN h
    ELSE IF rest.err # NoErr THEN rest
    ELSE Ok(<<h.val>> \o rest.val)

loadTestList(s, ts) ==
    IF ts = <<>> THEN Ok(<<>>)
    ELSE loadTestListNext(loadTest(s, Head(ts)), loadTestList(s, Tail(ts)))

\* the test a loader returns for the tests LoadSpec loaded as r
TestListOf(op, r) == IF r.err # NoErr THEN r ELSE Ok([op |-> op, Tests |-> r.val])
NotOf(r) == IF r.err # NoErr THEN r ELSE Ok([op |-> "not", Test |-> r.val])

\* loadAllOfTest, loadAnyOfTest: the tests of the list, in order
loadAllOfTest(s, t) == TestListOf("allof", loadTestList(s, t.tests))
loadAnyOfTest(s, t) == TestListOf("anyof", loadTestList(s, t.tests))

\* loadNotTest: the one test the parser gives `not`
loadNotTest(s, t) == NotOf(loadTest(s, t.tests[1]))

\* the loader's dispatch on the test's name
loadTest(s, t) ==
    CASE t.name = "size"          -> loadSizeTest(s, t)
      [] t.name = "allof"         -> loadAllOfTest(s, t)
      [] t.name = "anyof"         -> loadAnyOfTest(s, t)
      [] t.name = "not"           -> loadNotTest(s, t)
      [] t.name = "true"          -> loadTrueTest(s, t)
      [] t.name = "false"         -> loadFalseTest(s, t)
      [] t.name = "exists"        -> loadExistsTest(s, t)
      [] t.name = "header"        -> loadHeaderTest(s, t)
      [] t.name = "address"       -> loadAddressTest(s, t)
      [] t.name = "envelope"      -> loadEnvelopeTest(s, t)
      [] t.name = "mailboxexists" -> loadMailboxExistsTest(s, t)
      [] t.name = "date"          -> loadDateTest(s, t)
      [] t.name = "currentdate"   -> loadCurrentDateTest(s, t)
      [] OTHER                    -> Fail("unknown test")

\* -------------------------------------------------------- command loaders
\* loadVacation: `vacation` needs the vacation extension; Days defaults to
\* 7, every other field to the zero value of its type
loadVacation(s, p) ==
    IF ~RequiresExtension(s, "vacation")
    THEN Fail("missing require 'vacation'")
    ELSE Ok([op        |-> "vacation",
             Days      |-> IF p.days = None THEN 7 ELSE p.days[1],
             Subject   |-> IF p.subject = None THEN "" ELSE p.subject[1],
             From      |-> IF p.from = None THEN "" ELSE p.from[1],
             Addresses |-> IF p.addresses = None THEN <<>> ELSE p.addresses[1],
             Mime      |-> p.mime,
             Handle    |-> IF p.handle = None THEN "" ELSE p.handle[1],
             Reason    |-> p.reason])

loadAddHeader(s, p) ==
    IF ~RequiresExtension(s, "editheader")
    THEN Fail("missing require 'editheader'")
    ELSE Ok([op |-> "addheader", Last |-> p.last,
             FieldName |-> p.field, Value |-> p.value])

\* the command loadDeleteHeader returns, m its matcher
DeleteHeaderOf(p, m, Index) ==
    Ok([op |-> "deleteheader", matcher |-> m,
        Index |-> Index, Last |-> p.last,
        FieldName |-> p.field, ValuePatterns |-> p.patterns])

\* loadDeleteHeader: :last needs :index; setKey is called, and can refuse
\* the command, only when value patterns are given
loadDeleteHeader(s, p) ==
    IF ~RequiresExtension(s, "editheader")
    THEN Fail("missing require 'editheader'")
    ELSE LET m == setKey(p, addSpecTags(p), p.patterns)
             Index == IF p.index = None THEN 0 ELSE p.index[1]
         IN IF p.last /\ Index = 0
            THEN Fail(":last can only be specified with :index")
            ELSE IF Len(p.patterns) > 0
            THEN IF m.err # NoErr THEN Fail("deleteheader: multiple match-types")
                 ELSE DeleteHeaderOf(p, m.val, Index)
            ELSE DeleteHeaderOf(p, addSpecTags(p), Index)

\* keep [:flags list]; :flags belongs to imap4flags
loadKeep(s, p) ==
    IF p.flags # None /\ ~RequiresExtension(s, "imap4flags")
    THEN Fail("missing require 'imap4flags'")
    ELSE Ok([op |-> "keep", Flags |-> p.flags])

loadDiscard(s, p) == Ok([op |-> "discard"])

\* fileinto [:copy] [:create] [:flags list] mailbox
loadFileInto(s, p) ==
    IF ~RequiresExtension(s, "fileinto")
    THEN Fail("missing require 'fileinto'")
    ELSE IF p.copy /\ ~RequiresExtension(s, "copy")
    THEN Fail("missing require 'copy'")
    ELSE IF p.create /\ ~RequiresExtension(s, "mailbox")
    THEN Fail("missing require 'mailbox'")
    ELSE IF p.flags # None /\ ~RequiresExtension(s, "imap4flags")
    THEN Fail("missing require 'imap4flags'")
    ELSE Ok([op |-> "fileinto", Mailbox |-> p.mailbox, Copy |-> p.copy,
             Create |-> p.create, Flags |-> p.flags])

\* redirect [:copy] address
loadRedirect(s, p) ==
    IF p.copy /\ ~RequiresExtension(s, "copy")
    THEN Fail("missing require 'copy'")
    ELSE Ok([op |-> "redirect", Addr |-> p.addr, Copy |-> p.copy])

\* setflag / addflag / removeflag list
loadFlagCmd(s, p) ==
    IF ~RequiresExtension(s, "imap4flags")
    THEN Fail("missing require 'imap4flags'")
    ELSE Ok([op |-> p.name, Flags |-> p.flags])

\* set name value
loadSet(s, p) ==
    IF ~RequiresExtension(s, "variables")
    THEN Fail("missing require 'variables'")
    ELSE Ok([op |-> "set", Name |-> p.var, Value |-> p.value])

RECURSIVE loadCmd(_, _)
\* a block: every command of it must load
RECURSIVE LoadBlock(_, _)
LoadBlock(s, ps) ==
    IF ps = <<>> THEN Ok(<<>>)
    ELSE LET h == loadCmd(s, Head(ps))
         IN IF h.err # NoErr THEN h
            ELSE LET t == LoadBlock(s, Tail(ps))
                 IN IF t.err # NoErr THEN t ELSE Ok(<<h.val>> \o t.val)

\* if <test> { block }
loadIf(s, p) ==
    LET t == loadTest(s, p.test)
    IN IF t.err # NoErr THEN t
       ELSE LET b == LoadBlock(s, p.block)
            IN IF b.err # NoErr THEN b
               ELSE Ok([op |-> "if", Test |-> t.val, Block |-> b.val])

\* the loader's dispatch on the command's name
loadCmd(s, p) ==
    CASE p.name = "keep"         -> loadKeep(s, p)
      [] p.name = "discard"      -> loadDiscard(s, p)
      [] p.name = "fileinto"     -> loadFileInto(s, p)
      [] p.name = "redirect"     -> loadRedirect(s, p)
      [] p.name = "vacation"     -> loadVacation(s, p)
      [] p.name = "addheader"    -> loadAddHeader(s, p)
      [] p.name = "deleteheader" -> loadDeleteHeader(s, p)
      [] p.name \in {"setflag", "addflag", "removeflag"} -> loadFlagCmd(s, p)
      [] p.name = "set"          -> loadSet(s, p)
      [] p.name = "if"           -> loadIf(s, p)
      [] OTHER                   -> Fail("unknown command")

\* loadRequire: every name must be a known extension, and one of the
\* host's list when the host gave a list (a nil EnabledExtensions leaves
\* every known extension available); the names join the script's set
loadRequire(host, exts, names) ==
    IF \E n \in names : n \notin Extensions
    THEN Fail("loadRequire: unsupported extension")
    ELSE IF \E n \in names : ~host.nil /\ n \notin host.names
    THEN Fail("loadRequire: extension not enabled")
    ELSE Ok(exts \cup names)

\* LoadScript on the script `require names; cmds`
LoadScript(names, cmds, opts, host) ==
    LET r == loadRequire(host, {}, names)
    IN IF r.err # NoErr THEN r
       ELSE LET s == [extensions |-> r.val, opts |-> opts]
                b == LoadBlock(s, cmds)
            IN IF b.err # NoErr THEN b
               ELSE Ok([extensions |-> s.extensions, opts |-> opts, cmds |-> b.val])

\* DefaultOptions().Interp
DefaultInterpOptions == [MaxRedirects |-> DefaultMaxRedirects]

\* Load(r, opts): lexing and parsing are taken as done
Load(names, cmds, opts) == LoadScript(names, cmds, opts.Interp, opts.EnabledExtensions)

\* ------------------------------------------------------- runtime helpers
\* the variable a string consisting of one variable reference names
VarRefName == ("${v}" :> "v") @@ ("${V}" :> "v")

\* expandVars: with the variables extension a reference is replaced by the
\* variable's value, by the empty string when the variable is unset
expandVars(s, d, str) ==
    IF RequiresExtension(s, "variables") /\ str \in DOMAIN VarRefName
    THEN IF VarRefName[str] \in DOMAIN d.Variables
         THEN d.Variables[VarRefName[str]]
         ELSE ""
    ELSE str

expandVarsList(s, d, list) == [i \in 1..Len(list) |-> expandVars(s, d, list[i])]

RECURSIVE DedupLower(_, _, _)
\* lower-case every entry, drop the entries in `drop`, keep first occurrences
DedupLower(list, drop, seen) ==
    IF list = <<>> THEN <<>>
    ELSE LET f == ToLower(Head(list))
         IN IF f \in seen \/ f \in drop
            THEN DedupLower(Tail(list), drop, seen)
            ELSE <<f>> \o DedupLower(Tail(list), drop, seen \cup {f})

\* canonical flag list that keeps the flags in the case they were written
canonicalFlagsKeepCase(src, remove) ==
    LET drop == {remove[i] : i \in 1..Len(remove)}
    IN SelectSeq(src, LAMBDA f : f \notin drop)

\* canonicalFlags: lower-cased, de-duplicated, without the removed flags
canonicalFlags(src, remove) ==
    DedupLower(src, {ToLower(remove[i]) : i \in 1..Len(remove)}, {})

\* ------------------------------------------------------------- editheader
\* isValidHeaderName: one or more bytes in 33..126 other than ':'
isValidHeaderName(name) ==
    /\ Len(Bytes(name)) # 0
    /\ \A i \in 1..Len(Bytes(name)) :
          ~(Bytes(name)[i] < 33 \/ Bytes(name)[i] > 126 \/ Bytes(name)[i] = 58)

\* protectedHeaders, lower-case
protectedHeaders == {"received", "auto-submitted"}

\* isProtectedHeader: the lower-cased name is one of protectedHeaders
isProtectedHeader(name) ==
    \E h \in protectedHeaders : toLowerASCII(Bytes(name)) = Bytes(h)

\* Message.HeaderGet of the host's message: the values stored for the
\* field, field names compared without regard to case
MessageHeaderGet(msg, key) ==
    IF \E i \in 1..Len(msg.Header) : EqualFold(msg.Header[i].name, key)
    THEN msg.Header[CHOOSE i \in 1..Len(msg.Header) :
                       EqualFold(msg.Header[i].name, key)].values
    ELSE <<>>

\* the occurrence a delete entry with Index > 0 names, 0-based
EditIdx(edit, n) == IF edit.Last THEN n - edit.Index ELSE edit.Index - 1

\* the sequence without its (0-based) element idx
RemoveAt(seq, idx) == SubSeq(seq, 1, idx) \o SubSeq(seq, idx + 2, Len(seq))

RECURSIVE DeleteFirst(_, _)
\* the sequence without the first element equal to v
DeleteFirst(seq, v) ==
    IF seq = <<>> THEN <<>>
    ELSE IF Head(seq) = v THEN Tail(seq)
    ELSE <<Head(seq)>> \o DeleteFirst(Tail(seq), v)

\* one journal entry applied to `result`. st.result is the slice being
\* built, st.values the contents of the caller's slice, st.shared whether
\* result still lives in the caller's backing array (writes through result
\* then land in st.values)
applyEdit(st, edit) ==
    IF edit.Action = "add"
    THEN IF edit.Last
         THEN \* append(result, v): in place while the array has room
              IF st.shared /\ Len(st.result) < Len(st.values)
              THEN [st EXCEPT !.result = Append(@, edit.Value),
                              !.values[Len(st.result) + 1] = edit.Value]
              ELSE [st EXCEPT !.result = Append(@, edit.Value), !.shared = FALSE]
         ELSE [st EXCEPT !.result = <<edit.Value>> \o @, !.shared = FALSE]
    ELSE IF edit.Index > 0
    THEN LET idx == EditIdx(edit, Len(st.result))
         IN IF idx >= 0 /\ idx < Len(st.result)
            THEN \* append(result[:idx], result[idx+1:]...) shifts in place
                 LET res == RemoveAt(st.result, idx)
                 IN [st EXCEPT
                       !.result = res,
                       !.values = IF st.shared
                                  THEN [k \in 1..Len(st.values) |->
                                          IF k <= Len(res) THEN res[k] ELSE st.values[k]]
                                  ELSE @]
            ELSE st
    ELSE IF edit.Value # ""
    THEN [st EXCEPT !.result = DeleteFirst(@, edit.Value), !.shared = FALSE]
    ELSE [st EXCEPT !.result = <<>>, !.shared = FALSE]

RECURSIVE applyEdits(_, _, _)
\* the loop over d.HeaderEdits: entries for other fields are skipped
applyEdits(st, edits, fieldName) ==
    IF edits = <<>> THEN st
    ELSE applyEdits(IF EqualFold(Head(edits).FieldName, fieldName)
                    THEN applyEdit(st, Head(edits)) ELSE st,
                    Tail(edits), fieldName)

\* what the replay leaves: the result and the caller's slice
Replay(st) == [result |-> st.result, values |-> st.values]

\* the overlay replayed on the caller's slice itself, without the copy
applyHeaderEditsToValuesInPlace(d, fieldName, values) ==
    IF d.HeaderEdits = <<>>
    THEN [result |-> values, values |-> values]
    ELSE Replay(applyEdits([result |-> values, values |-> values, shared |-> TRUE],
                           d.HeaderEdits, fieldName))

\* applyHeaderEditsToValues: the journal replayed, in order, on a copy of
\* `values`; the record holds the result and the caller's slice afterwards
applyHeaderEditsToValues(d, fieldName, values) ==
    IF d.HeaderEdits = <<>>
    THEN [result |-> values, values |-> values]
    ELSE Replay(applyEdits([result |-> values, values |-> values, shared |-> FALSE],
                           d.HeaderEdits, fieldName))

\* the host's message with the slice stored for the field holding vs
WithValues(msg, key, vs) ==
    [msg EXCEPT !.Header = [i \in 1..Len(msg.Header) |->
        IF EqualFold(msg.Header[i].name, key)
        THEN [msg.Header[i] EXCEPT !.values = vs] ELSE msg.Header[i]]]

\* the error the host's Message.HeaderGet returns for the field: a host
\* message fails on the fields it lists as Failing
MessageHeaderErr(msg, key) ==
    IF "Failing" \in DOMAIN msg /\ \E f \in msg.Failing : EqualFold(f, key)
    THEN "HeaderGet: host error" ELSE NoErr

\* HeaderGet of a message that is not wrapped: the host's values as they are
HeaderGetUnedited(d, key) ==
    [values |-> MessageHeaderGet(d.Msg, key), msg |-> d.Msg,
     err |-> MessageHeaderErr(d.Msg, key)]

\* the values a read returns and the host's message after it
HeaderRead(d, key, r) ==
    [values |-> r.result, msg |-> WithValues(d.Msg, key, r.values), err |-> NoErr]

\* a HeaderGet of the wrapper that leaves the journal aside
HeaderGetNoReplay(d, key) == HeaderGetUnedited(d, key)

\* d.Msg.HeaderGet: the values read, the host's message after the read, and
\* the host's error. While d.Msg is the EditableMessage over the host's
\* message (d.Editable) this is EditableMessage.HeaderGet, which replays the
\* journal; a message assigned to d.Msg afterwards is read as it is
HeaderGet(d, key) ==
    IF ~d.Editable THEN HeaderGetUnedited(d, key)
    ELSE IF MessageHeaderErr(d.Msg, key) # NoErr
    THEN [values |-> <<>>, msg |-> d.Msg, err |-> MessageHeaderErr(d.Msg, key)]
    ELSE HeaderRead(d, key, applyHeaderEditsToValues(d, key, MessageHeaderGet(d.Msg, key)))

\* the values GetHeaderWithEdits returns after d.Msg.HeaderGet returned got:
\* the journal replayed on them
WithEdits(d, fieldName, got) ==
    IF got.err # NoErr THEN [values |-> <<>>, err |-> got.err]
    ELSE [values |-> applyHeaderEditsToValues([d EXCEPT !.Msg = got.msg],
                                              fieldName, got.values).result,
          err |-> NoErr]

\* GetHeaderWithEdits: d.Msg.HeaderGet, then the journal replayed on what it
\* returned
GetHeaderWithEdits(d, fieldName) == WithEdits(d, fieldName, HeaderGet(d, fieldName))

\* ----------------------------------------------------------- regex limits
\* DefaultRegexLimits.MaxPatternLength and .MaxInputLength, in bytes
MaxPatternLength == 1000
MaxInputLength == 10000

\* CompileSafeRegex's length check with the limit itself excluded
PatternTooLongInclusive(n) == n >= MaxPatternLength

\* CompileSafeRegex: len(pattern) > limits.MaxPatternLength
PatternTooLong(n) == n > MaxPatternLength

\* FindSubmatch: len(input) > m.limits.MaxInputLength
InputTooLong(n) == n > MaxInputLength

RegexFailed(msg) == [val |-> FALSE, err |-> msg]

\* the error a select resolved by ctx.Done() returns
TimeoutErrors == {"regex compilation timeout", "regex execution timeout"}

\* the errors of an exceeded length or time budget
LimitErrors == TimeoutErrors \cup {"regex pattern too long", "input too long for regex"}

\* ------------------------------------------------------ envelope addresses
\* a host of a source route: "@" and a name without empty labels
ValidRouteHost(h) ==
    /\ HasPrefix(TrimSpace(h), <<64>>)
    /\ Len(TrimSpace(h)) >= 2
    /\ CountByte(TrimSpace(h), 64) = 1
    /\ ~Contains(Tail(TrimSpace(h)), <<46, 46>>)
    /\ ~HasPrefix(Tail(TrimSpace(h)), <<46>>)
    /\ ~HasSuffix(Tail(TrimSpace(h)), <<46>>)

RECURSIVE ValidRoute(_)
\* every comma-separated host of the source route is valid
ValidRoute(r) ==
    IF IndexByte(r, 44) = 0 THEN ValidRouteHost(r)
    ELSE /\ ValidRouteHost(SubSeq(r, 1, IndexByte(r, 44) - 1))
         /\ ValidRoute(SubSeq(r, IndexByte(r, 44) + 1, Len(r)))

\* parseEnvelopeAddress for a source route and the address after its colon
parseRouted(route, actual) ==
    IF ~HasPrefix(route, <<64>>) THEN Fail("invalid source route: must start with @")
    ELSE IF CountByte(route, 64) > CountByte(route, 44) + 1
    THEN Fail("invalid source route: malformed host list")
    ELSE IF ~ValidRoute(route) THEN Fail("invalid source route host")
    ELSE Ok(actual)

\* parseEnvelopeAddress for an address in angle brackets, inner the text
\* between them
parseBracketed(inner) ==
    IF Contains(inner, <<58>>)
    THEN parseRouted(SubSeq(inner, 1, IndexByte(inner, 58) - 1),
                     SubSeq(inner, IndexByte(inner, 58) + 1, Len(inner)))
    ELSE IF inner = Bytes("MAILER-DAEMON") THEN Ok(inner)
    ELSE IF CountByte(inner, 64) = 0 THEN Fail("invalid envelope address: missing @")
    ELSE IF CountByte(inner, 64) # 1 THEN Fail("invalid envelope address: multiple @")
    ELSE IF IndexByte(inner, 64) = 1 \/ IndexByte(inner, 64) = Len(inner)
    THEN Fail("invalid envelope address: empty local part or domain")
    ELSE Ok(inner)

\* parseEnvelopeAddress, on the bytes of the address
parseEnvelopeBytes(addr) ==
    IF addr = <<>> \/ addr = <<60, 62>> THEN Ok(<<>>)
    ELSE IF ~HasPrefix(addr, <<60>>) \/ ~HasSuffix(addr, <<62>>)
    THEN IF ~Contains(addr, <<64>>) /\ addr # Bytes("MAILER-DAEMON")
         THEN Fail("invalid envelope address syntax")
         ELSE IF HasSuffix(addr, <<64>>) /\ addr # Bytes("MAILER-DAEMON@")
         THEN Fail("invalid envelope address syntax: missing domain")
         ELSE IF HasPrefix(addr, <<64>>)
         THEN Fail("invalid envelope address syntax: missing local part")
         ELSE Ok(addr)
    ELSE parseBracketed(SubSeq(addr, 2, Len(addr) - 1))

\* the result of parseEnvelopeBytes as a string
Cleaned(r) == IF r.err # NoErr THEN r ELSE Ok(Str(r.val))

\* parseEnvelopeAddress: the cleaned address, or the error
parseEnvelopeAddress(addr) == Cleaned(parseEnvelopeBytes(Bytes(addr)))

\* --------------------------------------------------------------- matching
\* what a test returns
Returns(v) == [val |-> v, err |-> NoErr]
Raises(msg) == [val |-> FALSE, err |-> msg]

\* results of Check: the value, the error and the RuntimeData afterwards
Tested(v, d) == [val |-> v, err |-> NoErr, d |-> d]
TestFailed(msg, d) == [val |-> FALSE, err |-> msg, d |-> d]

\* the outcome of a regex evaluation that was not needed
NoRx == [val |-> FALSE, err |-> NoErr]

\* the panic of testString on the match-type count
PanicCount == "panic: testString should not be used with MatchCount"

ErrComparatorMatchUnsupported == "match-comparator combination not supported"

\* where an evaluation stands after a call that ended with e: a panic is
\* recovered nowhere and ends the evaluation without a result, an error
\* ends it with that error
After(e) == IF e = NoErr THEN "run" ELSE IF e = PanicCount THEN "panicked" ELSE "failed"

Comparators ==
    {"i;octet", "i;ascii-casemap", "i;ascii-numeric", "i;unicode-casemap"}

RECURSIVE DigitRun(_)
\* the leading run of decimal digits
DigitRun(bs) ==
    IF bs # <<>> /\ Head(bs) \in 48..57 THEN <<Head(bs)>> \o DigitRun(Tail(bs)) ELSE <<>>

RECURSIVE ParseUint(_, _)
ParseUint(ds, acc) ==
    IF ds = <<>> THEN acc ELSE ParseUint(Tail(ds), acc * 10 + (Head(ds) - 48))

\* numericValue: the number the string starts with, none without a digit
numericValue(bs) == IF DigitRun(bs) = <<>> THEN None ELSE Some(ParseUint(DigitRun(bs), 0))

\* Relational.CompareNumericValue, lhs and rhs what numericValue returned:
\* a string without digits is larger than every number and equal to every
\* other string without digits
CompareNumericValue(rel, lhs, rhs) ==
    CASE rel = "eq" -> lhs = rhs
      [] rel = "ne" -> lhs # rhs
      [] rel = "lt" -> lhs # None /\ (rhs = None \/ lhs[1] < rhs[1])
      [] rel = "le" -> rhs = None \/ (lhs # None /\ lhs[1] <= rhs[1])
      [] rel = "gt" -> rhs # None /\ (lhs = None \/ lhs[1] > rhs[1])
      [] rel = "ge" -> lhs = None \/ (rhs # None /\ lhs[1] >= rhs[1])
      [] OTHER -> FALSE

RECURSIVE Less(_, _)
\* a < b for strings, byte by byte
Less(a, b) ==
    IF b = <<>> THEN FALSE
    ELSE IF a = <<>> THEN TRUE
    ELSE IF Head(a) # Head(b) THEN Head(a) < Head(b)
    ELSE Less(Tail(a), Tail(b))

\* Relational.CompareString
CompareString(rel, lhs, rhs) ==
    CASE rel = "eq" -> lhs = rhs
      [] rel = "ne" -> lhs # rhs
      [] rel = "lt" -> Less(lhs, rhs)
      [] rel = "le" -> ~Less(rhs, lhs)
      [] rel = "gt" -> Less(rhs, lhs)
      [] rel = "ge" -> ~Less(lhs, rhs)
      [] OTHER -> FALSE

RECURSIVE Glob(_, _)
\* the value matches the :matches pattern: "*" stands for any run of bytes,
\* "?" for one byte, and a backslash takes the next byte literally
Glob(p, v) ==
    IF p = <<>> THEN v = <<>>
    ELSE IF Head(p) = 42
    THEN \E k \in 0..Len(v) : Glob(Tail(p), SubSeq(v, k + 1, Len(v)))
    ELSE IF v = <<>> THEN FALSE
    ELSE IF Head(p) = 63 THEN Glob(Tail(p), Tail(v))
    ELSE IF Head(p) = 92 /\ Len(p) >= 2
    THEN Head(v) = p[2] /\ Glob(SubSeq(p, 3, Len(p)), Tail(v))
    ELSE Head(v) = Head(p) /\ Glob(Tail(p), Tail(v))

\* matchOctet: the glob match, on lower-cased strings with caseFold
matchOctet(pattern, value, caseFold) ==
    IF caseFold THEN Returns(Glob(toLowerASCII(pattern), toLowerASCII(value)))
    ELSE Returns(Glob(pattern, value))

\* matchRegex when the worker answers within the deadlines, for a pattern
\* without metacharacters: the pattern is found where the value contains it
matchRegex(pattern, value) ==
    IF PatternTooLong(Len(pattern)) THEN RegexFailed("regex pattern too long")
    ELSE IF InputTooLong(Len(value)) THEN RegexFailed("input too long for regex")
    ELSE Returns(Contains(value, pattern))

\* the value testString hands to matchRegex: lower-cased unless the
\* comparator is i;octet
regexValue(comparator, value) ==
    IF comparator = "i;octet" THEN value ELSE toLowerASCII(value)

\* testString, value and key given by their bytes (ASCII); rx is what
\* matchRegex returns when testString calls it
testString(comparator, match, rel, value, key, rx) ==
    CASE comparator \in Comparators /\ match = "count" -> Raises(PanicCount)
      [] comparator = "i;octet" /\ match = "contains" -> Returns(Contains(value, key))
      [] comparator = "i;octet" /\ match = "is" -> Returns(value = key)
      [] comparator = "i;octet" /\ match = "matches" -> matchOctet(key, value, FALSE)
      [] comparator = "i;octet" /\ match = "regex" -> rx
      [] comparator = "i;octet" /\ match = "value" ->
            Returns(CompareString(rel, value, key))
      [] comparator = "i;ascii-numeric" /\ match \in {"contains", "matches", "regex"} ->
            Raises(ErrComparatorMatchUnsupported)
      [] comparator = "i;ascii-numeric" /\ match = "is" ->
            Returns(CompareNumericValue("eq", numericValue(value), numericValue(key)))
      [] comparator = "i;ascii-numeric" /\ match = "value" ->
            Returns(CompareNumericValue(rel, numericValue(value), numericValue(key)))
      [] comparator \in {"i;ascii-casemap", "i;unicode-casemap"} /\ match = "contains" ->
            Returns(Contains(toLowerASCII(value), toLowerASCII(key)))
      [] comparator \in {"i;ascii-casemap", "i;unicode-casemap"} /\ match = "is" ->
            Returns(toLowerASCII(value) = toLowerASCII(key))
      [] comparator \in {"i;ascii-casemap", "i;unicode-casemap"} /\ match = "matches" ->
            matchOctet(key, value, TRUE)
      [] comparator \in {"i;ascii-casemap", "i;unicode-casemap"} /\ match = "regex" -> rx
      [] comparator \in {"i;ascii-casemap", "i;unicode-casemap"} /\ match = "value" ->
            Returns(CompareString(rel, toLowerASCII(value), toLowerASCII(key)))
      [] OTHER -> Returns(FALSE)

RECURSIVE tryMatchFrom(_, _, _, _, _)
\* the loop of matcherTest.tryMatch after testString returned r for the
\* first of keys
tryMatchNext(s, d, m, keys, value, r) ==
    IF r.err # NoErr THEN Raises(r.err)
    ELSE IF r.val THEN Returns(TRUE)
    ELSE tryMatchFrom(s, d, m, Tail(keys), value)

\* the body of the loop of matcherTest.tryMatch for the expanded key
tryMatchKey(s, d, m, keys, value, key) ==
    tryMatchNext(s, d, m, keys, value,
                 testString(m.comparator, m.match, m.relational, value, key,
                            matchRegex(key, regexValue(m.comparator, value))))

\* matcherTest.tryMatch from the key keys[1] on
tryMatchFrom(s, d, m, keys, value) ==
    IF keys = <<>> THEN Returns(FALSE)
    ELSE tryMatchKey(s, d, m, keys, value, Bytes(expandVars(s, d, Head(keys))))

\* matcherTest.tryMatch: the value is tested against the keys in order
tryMatch(s, d, m, value) == tryMatchFrom(s, d, m, m.key, value)

\* ------------------------------------------- address parts and counting
\* split: the mailbox and the domain of an address, cut at its last at-sign
split(addr) ==
    IF toLowerASCII(addr) = Bytes("postmaster")
    THEN [err |-> NoErr, mailbox |-> addr, domain |-> <<>>]
    ELSE IF LastIndexByte(addr, 64) = 0
    THEN [err |-> "address: missing at-sign", mailbox |-> <<>>, domain |-> <<>>]
    ELSE IF LastIndexByte(addr, 64) = 1
    THEN [err |-> "address: empty local-part", mailbox |-> <<>>, domain |-> <<>>]
    ELSE IF LastIndexByte(addr, 64) = Len(addr)
    THEN [err |-> "address: empty domain", mailbox |-> <<>>, domain |-> <<>>]
    ELSE [err |-> NoErr, mailbox |-> SubSeq(addr, 1, LastIndexByte(addr, 64) - 1),
          domain |-> SubSeq(addr, LastIndexByte(addr, 64) + 1, Len(addr))]

\* SubaddressSeparator, the byte "+"
SubaddressSeparator == 43

\* splitSubaddress: user and detail, cut at the first separator
splitSubaddress(localPart) ==
    IF IndexByte(localPart, SubaddressSeparator) = 0
    THEN [user |-> localPart, detail |-> <<>>]
    ELSE [user |-> SubSeq(localPart, 1, IndexByte(localPart, SubaddressSeparator) - 1),
          detail |-> SubSeq(localPart, IndexByte(localPart, SubaddressSeparator) + 1,
                            Len(localPart))]

\* the part of the address that testAddress compares; none when the address
\* does not split, or has no detail
\* sp is what split returned for the address
addressPartOf(part, address, sp) ==
    IF address = <<>> THEN Some(<<>>)
    ELSE IF part = "all" THEN Some(address)
    ELSE IF sp.err # NoErr THEN None
    ELSE CASE part = "localpart" -> Some(sp.mailbox)
           [] part = "domain" -> Some(sp.domain)
           [] part = "user" -> Some(splitSubaddress(sp.mailbox).user)
           [] part = "detail" ->
                IF splitSubaddress(sp.mailbox).detail = <<>>
                        /\ ~Contains(sp.mailbox, <<SubaddressSeparator>>)
                THEN None
                ELSE Some(splitSubaddress(sp.mailbox).detail)

addressPart(part, address) == addressPartOf(part, address, split(address))

\* the end of testAddress: valueToCompare is matched with the keys, and an
\* address without the part matches nothing
testAddressPart(s, rd, m, valueToCompare) ==
    IF valueToCompare = None THEN Returns(FALSE)
    ELSE tryMatch(s, rd, m, valueToCompare[1])

\* testAddress: "<>" is the empty address
testAddress(s, rd, m, part, address) ==
    testAddressPart(s, rd, m,
                    addressPart(part, IF address = <<60, 62>> THEN <<>> ELSE address))

\* matcherTest.isCount
isCount(m) == m.match = "count"

\* matcherTest.countMatches: the count compares with one of the keys
countMatches(s, rd, m, n) ==
    \E i \in 1..Len(m.key) :
        CompareNumericValue(m.relational, Some(n),
                            numericValue(Bytes(expandVars(s, rd, m.key[i]))))

\* Envelope.EnvelopeFrom, EnvelopeTo and AuthUsername, by the name of the part
EnvelopeValue(rd, name) ==
    CASE name = Bytes("from") -> rd.Envelope.From
      [] name = Bytes("to") -> rd.Envelope.To
      [] name = Bytes("auth") -> rd.Envelope.Auth

\* the envelope value is an address that parseEnvelopeAddress rejects
InvalidEnvelope(name, value) ==
    /\ value # ""
    /\ name \in {Bytes("from"), Bytes("to")}
    /\ parseEnvelopeBytes(Bytes(value)).err # NoErr

RECURSIVE EnvelopeLoop(_, _, _, _, _)
\* the loop of EnvelopeTest.Check after testAddress returned r
EnvelopeMatched(s, t, rd, fields, entryCount, r) ==
    IF r.err # NoErr THEN Raises(r.err)
    ELSE IF r.val THEN Returns(TRUE)
    ELSE EnvelopeLoop(s, t, rd, Tail(fields), entryCount)

\* the body of the loop of EnvelopeTest.Check for the part `name`
EnvelopeField(s, t, rd, fields, entryCount, name) ==
    IF name \notin {Bytes("from"), Bytes("to"), Bytes("auth")}
    THEN Raises("envelope: unsupported envelope-part")
    ELSE IF InvalidEnvelope(name, EnvelopeValue(rd, name))
    THEN EnvelopeLoop(s, t, rd, Tail(fields), entryCount)
    ELSE IF isCount(t.matcher)
    THEN EnvelopeLoop(s, t, rd, Tail(fields),
                      entryCount + (IF EnvelopeValue(rd, name) # "" THEN 1 ELSE 0))
    ELSE EnvelopeMatched(s, t, rd, fields, entryCount,
                         testAddress(s, rd, t.matcher, t.AddressPart,
                                     Bytes(EnvelopeValue(rd, name))))

\* EnvelopeTest.Check from the part fields[1] on
EnvelopeLoop(s, t, rd, fields, entryCount) ==
    IF fields = <<>>
    THEN IF isCount(t.matcher) THEN Returns(countMatches(s, rd, t.matcher, entryCount))
         ELSE Returns(FALSE)
    ELSE EnvelopeField(s, t, rd, fields, entryCount,
                       toLowerASCII(Bytes(expandVars(s, rd, Head(fields)))))

\* EnvelopeTest.Check that counts and matches the values that
\* parseEnvelopeAddress rejects as well
EnvelopeTestCheckUnvalidated(s, t, rd) ==
    IF \E i \in 1..Len(t.Field) :
          toLowerASCII(Bytes(expandVars(s, rd, t.Field[i])))
              \notin {Bytes("from"), Bytes("to"), Bytes("auth")}
    THEN Raises("envelope: unsupported envelope-part")
    ELSE IF isCount(t.matcher)
    THEN Returns(countMatches(s, rd, t.matcher,
             Cardinality({i \in 1..Len(t.Field) :
                 EnvelopeValue(rd, toLowerASCII(Bytes(expandVars(s, rd, t.Field[i]))))
                     # ""})))
    ELSE Returns(\E i \in 1..Len(t.Field) :
             testAddress(s, rd, t.matcher, t.AddressPart,
                 Bytes(EnvelopeValue(rd,
                     toLowerASCII(Bytes(expandVars(s, rd, t.Field[i])))))).val)

\* EnvelopeTest.Check
EnvelopeTestCheck(s, t, rd) == EnvelopeLoop(s, t, rd, t.Field, 0)

\* allowedAddrHeaders
allowedAddrHeaders ==
    {"from", "to", "cc", "bcc", "sender", "resent-from", "resent-to", "reply-to",
     "resent-reply-to", "resent-sender", "resent-cc", "resent-bcc", "for-approval",
     "for-handling", "for-comment", "apparently-to", "errors-to", "delivered-to",
     "return-receipt-to", "x-admin", "read-receipt-to", "x-confirm-reading-to",
     "return-receipt-requested", "registered-mail-reply-requested-by",
     "mail-followup-to", "mail-reply-to", "abuse-reports-to", "x-complaints-to",
     "x-report-abuse-to", "x-beenthere", "x-original-from", "x-original-to"}

\* the position of the first ")" after position i, 0 when there is none
ClosingAfter(bs, i) ==
    IF \E j \in (i + 1)..Len(bs) : bs[j] = 41
    THEN CHOOSE j \in (i + 1)..Len(bs) : bs[j] = 41 /\ \A k \in (i + 1)..(j - 1) : bs[k] # 41
    ELSE 0

RECURSIVE StripComments(_)
\* the text in parentheses removed, leftmost first
StripComments(bs) ==
    IF IndexByte(bs, 40) = 0 \/ ClosingAfter(bs, IndexByte(bs, 40)) = 0 THEN bs
    ELSE SubSeq(bs, 1, IndexByte(bs, 40) - 1)
         \o StripComments(SubSeq(bs, ClosingAfter(bs, IndexByte(bs, 40)) + 1, Len(bs)))

\* stripRFC2822Comments
stripRFC2822Comments(bs) == TrimSpace(StripComments(bs))

\* hasBareAngleBrackets of AddressTest.Check
hasBareAngleBrackets(cleanValue) ==
    /\ HasPrefix(TrimSpace(cleanValue), <<60>>)
    /\ HasSuffix(TrimSpace(cleanValue), <<62>>)
    /\ CountByte(TrimSpace(cleanValue), 60) = 1
    /\ CountByte(TrimSpace(cleanValue), 62) = 1

\* mail.ParseAddressList on the header values used: the addresses of the
\* list, or an error
ParseAddressList ==
    ("u@x" :> Ok(<<"u@x">>)) @@ ("u+d@x" :> Ok(<<"u+d@x">>))
    @@ ("u@x, u+d@x" :> Ok(<<"u@x", "u+d@x">>))
    @@ ("bad" :> Fail("mail: missing '@' or angle-addr"))
    @@ ("" :> Fail("mail: no address"))

\* what AddressTest.Check does with one header value, cleanValue the value
\* without its comments and parsed what mail.ParseAddressList returns for
\* it: a value with bare angle brackets or one that does not parse is
\* tested literally and counts for nothing, an empty list is tested as the
\* empty address, and the addresses of a list are tested and counted
ValueParsed(cleanValue, parsed) ==
    IF hasBareAngleBrackets(cleanValue) \/ parsed.err # NoErr
    THEN [count |-> 0, addrs |-> <<cleanValue>>]
    ELSE IF Len(parsed.val) = 0 THEN [count |-> 0, addrs |-> <<<<>>>>]
    ELSE [count |-> Len(parsed.val),
          addrs |-> [i \in 1..Len(parsed.val) |-> Bytes(parsed.val[i])]]

ValueAddrs(cleanValue) == ValueParsed(cleanValue, ParseAddressList[Str(cleanValue)])

RECURSIVE ValuesAddrs(_)
\* the addresses tested and counted for the values of one header, in order
ValuesAddrs(values) ==
    IF values = <<>> THEN [count |-> 0, addrs |-> <<>>]
    ELSE [count |-> ValueAddrs(stripRFC2822Comments(Bytes(Head(values)))).count
                      + ValuesAddrs(Tail(values)).count,
          addrs |-> ValueAddrs(stripRFC2822Comments(Bytes(Head(values)))).addrs
                      \o ValuesAddrs(Tail(values)).addrs]

RECURSIVE AddressHeaders(_, _, _, _, _)
RECURSIVE AddressList(_, _, _, _, _, _)
\* AddressTest.Check after testAddress returned r on the first of addrs: an
\* error or a match ends the test, otherwise the next address is taken
AddressMatched(s, t, rd, hdrs, addrs, n, r) ==
    IF r.err # NoErr THEN Raises(r.err)
    ELSE IF r.val THEN Returns(TRUE)
    ELSE AddressList(s, t, rd, hdrs, Tail(addrs), n)

\* the loop over the addresses tested for the header hdrs[1]
AddressList(s, t, rd, hdrs, addrs, n) ==
    IF addrs = <<>> THEN AddressHeaders(s, t, rd, Tail(hdrs), n)
    ELSE AddressMatched(s, t, rd, hdrs, addrs, n,
                        testAddress(s, rd, t.matcher, t.AddressPart, Head(addrs)))

\* the body of the loop over the headers, r what HeaderGet returned: with
\* :count the addresses of the values are counted, without it they are
\* tested in order, and a header without values is tested as the empty
\* address
AddressHeader(s, t, rd, hdrs, n, r) ==
    IF r.err # NoErr THEN Raises(r.err)
    ELSE IF isCount(t.matcher)
    THEN AddressHeaders(s, t, rd, Tail(hdrs), n + ValuesAddrs(r.values).count)
    ELSE IF Len(r.values) = 0 THEN AddressList(s, t, rd, hdrs, <<<<>>>>, n)
    ELSE AddressList(s, t, rd, hdrs, ValuesAddrs(r.values).addrs, n)

\* AddressTest.Check from the header hdrs[1] on, n addresses counted so far
AddressHeaders(s, t, rd, hdrs, n) ==
    IF hdrs = <<>>
    THEN IF isCount(t.matcher) THEN Returns(countMatches(s, rd, t.matcher, n))
         ELSE Returns(FALSE)
    ELSE IF expandVars(s, rd, Str(toLowerASCII(Bytes(Head(hdrs))))) \notin allowedAddrHeaders
    THEN AddressHeaders(s, t, rd, Tail(hdrs), n)
    ELSE AddressHeader(s, t, rd, hdrs, n,
                       HeaderGet(rd, expandVars(s, rd, Str(toLowerASCII(Bytes(Head(hdrs)))))))

\* AddressTest.Check
AddressTestCheck(s, t, rd) == AddressHeaders(s, t, rd, t.Header, 0)

RECURSIVE HeaderFrom(_, _, _, _, _)
RECURSIVE HeaderValues(_, _, _, _, _, _)
\* the loop over the values of one header after tryMatch returned r for the
\* first of them
HeaderValue(s, t, hdrs, d, n, values, r) ==
    IF r.err # NoErr THEN TestFailed(r.err, d)
    ELSE IF r.val THEN Tested(TRUE, d)
    ELSE HeaderValues(s, t, hdrs, d, n, Tail(values))

\* the loop over the values of the header hdrs[1]
HeaderValues(s, t, hdrs, d, n, values) ==
    IF values = <<>> THEN HeaderFrom(s, t, Tail(hdrs), d, n)
    ELSE HeaderValue(s, t, hdrs, d, n, values,
                     tryMatch(s, d, t.matcher, Bytes(Head(values))))

\* the loop body of HeaderTest.Check that, with :count, counts the values
\* of the first header only
HeaderRead1First(s, t, hdrs, d, n, r) ==
    IF r.err # NoErr THEN TestFailed(r.err, d)
    ELSE IF isCount(t.matcher)
    THEN HeaderFrom(s, t, <<>>, [d EXCEPT !.Msg = r.msg], n + Len(r.values))
    ELSE HeaderValues(s, t, hdrs, [d EXCEPT !.Msg = r.msg], n, r.values)

\* the loop body of HeaderTest.Check, r what HeaderGet returned for the
\* first header: with :count every value is counted
HeaderRead1(s, t, hdrs, d, n, r) ==
    IF r.err # NoErr THEN TestFailed(r.err, d)
    ELSE IF isCount(t.matcher)
    THEN HeaderFrom(s, t, Tail(hdrs), [d EXCEPT !.Msg = r.msg], n + Len(r.values))
    ELSE HeaderValues(s, t, hdrs, [d EXCEPT !.Msg = r.msg], n, r.values)

\* HeaderTest.Check from the header hdrs[1] on, n values counted so far
HeaderFrom(s, t, hdrs, d, n) ==
    IF hdrs = <<>>
    THEN Tested(isCount(t.matcher) /\ countMatches(s, d, t.matcher, n), d)
    ELSE HeaderRead1(s, t, hdrs, d, n, HeaderGet(d, expandVars(s, d, Head(hdrs))))

\* HeaderTest.Check
HeaderTestCheck(s, t, rd) ==
    [val |-> HeaderFrom(s, t, t.Header, rd, 0).val,
     err |-> HeaderFrom(s, t, t.Header, rd, 0).err]

\* ------------------------------------------------------------------ dates
\* an instant is its wall-clock reading in a zone: year Y, month M, day D,
\* hour h, minute m, second s, and the zone's offset off in seconds

\* the Julian Day Number of a date, as modifiedJulianDay computes it
JulianDayNumber(Y, M, D) ==
    D + ((153 * (M + 12 * ((14 - M) \div 12) - 3) + 2) \div 5)
      + 365 * (Y + 4800 - ((14 - M) \div 12))
      + ((Y + 4800 - ((14 - M) \div 12)) \div 4)
      - ((Y + 4800 - ((14 - M) \div 12)) \div 100)
      + ((Y + 4800 - ((14 - M) \div 12)) \div 400)
      - 32045

\* modifiedJulianDay
modifiedJulianDay(t) == JulianDayNumber(t.Y, t.M, t.D) - 2400001

\* the date of a Julian Day Number, from the intermediate value hh of the
\* conversion and the year count e
DateOfParts(e, hh) ==
    [Y |-> (e \div 1461) - 4716 + ((14 - ((((hh \div 153) + 2) % 12) + 1)) \div 12),
     M |-> (((hh \div 153) + 2) % 12) + 1,
     D |-> ((hh % 153) \div 5) + 1]

\* the date of the Julian Day Number j
DateOfYears(e) == DateOfParts(e, 5 * ((e % 1461) \div 4) + 2)
DateOf(j) ==
    DateOfYears(4 * (j + 1401 + ((((4 * j + 274277) \div 146097) * 3) \div 4) - 38) + 3)

\* the instant whose date is dt and whose time of day is secs seconds
Reading(dt, secs, off) ==
    [Y |-> dt.Y, M |-> dt.M, D |-> dt.D,
     h |-> secs \div 3600, m |-> (secs % 3600) \div 60, s |-> secs % 60, off |-> off]

\* the reading, in the zone of offset off, secs seconds after the midnight
\* that began the day of t in the zone of t
ReadingAfter(t, secs, off) ==
    Reading(DateOf(JulianDayNumber(t.Y, t.M, t.D) + (secs \div 86400)), secs % 86400, off)

\* Time.In(time.FixedZone("", off))
InZone(t, off) == ReadingAfter(t, t.h * 3600 + t.m * 60 + t.s - t.off + off, off)

\* the offset of time.Local on the host, in seconds: the host keeps UTC
LocalOffset == 0 * 3600

DigitValue ==
    ("0" :> 0) @@ ("1" :> 1) @@ ("2" :> 2) @@ ("3" :> 3) @@ ("4" :> 4)
    @@ ("5" :> 5) @@ ("6" :> 6) @@ ("7" :> 7) @@ ("8" :> 8) @@ ("9" :> 9)

\* strconv.Atoi on a two-character field that AtoiOk2 accepts
Atoi2(a, b) ==
    IF a = "-" THEN 0 - DigitValue[b]
    ELSE IF a = "+" THEN DigitValue[b]
    ELSE 10 * DigitValue[a] + DigitValue[b]

\* parseZoneOffset on a zone it accepts: the offset in seconds
parseZoneOffset(zone) ==
    (IF zone[1] = "-" THEN 0 - 1 ELSE 1)
        * (Atoi2(zone[2], zone[3]) * 3600 + Atoi2(zone[4], zone[5]) * 60)

\* the decimal digits of a natural number, as bytes
RECURSIVE Itoa(_)
Itoa(n) == IF n < 10 THEN <<48 + n>> ELSE Itoa(n \div 10) \o <<48 + (n % 10)>>

\* fmt.Sprintf("%02d", n) and the four-digit year of Time.Format
Pad2(n) == IF n < 10 THEN <<48>> \o Itoa(n) ELSE Itoa(n)
Pad4(n) ==
    IF n < 10 THEN <<48, 48, 48>> \o Itoa(n)
    ELSE IF n < 100 THEN <<48, 48>> \o Itoa(n)
    ELSE IF n < 1000 THEN <<48>> \o Itoa(n)
    ELSE Itoa(n)

\* Time.Weekday: 0 is Sunday
Weekday(t) == (JulianDayNumber(t.Y, t.M, t.D) + 1) % 7

\* the names Time.Format writes for "Mon" and "Jan"
DayNames ==
    <<<<83, 117, 110>>, <<77, 111, 110>>, <<84, 117, 101>>, <<87, 101, 100>>,
      <<84, 104, 117>>, <<70, 114, 105>>, <<83, 97, 116>>>>
MonthNames ==
    <<<<74, 97, 110>>, <<70, 101, 98>>, <<77, 97, 114>>, <<65, 112, 114>>,
      <<77, 97, 121>>, <<74, 117, 110>>, <<74, 117, 108>>, <<65, 117, 103>>,
      <<83, 101, 112>>, <<79, 99, 116>>, <<78, 111, 118>>, <<68, 101, 99>>>>

\* Time.Format of "2006-01-02", "15:04:05", "-0700" and "-07:00"
FormatDate(t) == Pad4(t.Y) \o <<45>> \o Pad2(t.M) \o <<45>> \o Pad2(t.D)
FormatTime(t) == Pad2(t.h) \o <<58>> \o Pad2(t.m) \o <<58>> \o Pad2(t.s)
FormatOffset(sign, secs, colon) ==
    sign \o Pad2(secs \div 3600) \o colon \o Pad2((secs % 3600) \div 60)
FormatZone(t, colon) ==
    IF t.off < 0 THEN FormatOffset(<<45>>, 0 - t.off, colon)
    ELSE FormatOffset(<<43>>, t.off, colon)

\* extractDatePart: the text of the part, as bytes
extractDatePart(t, part) ==
    CASE part = "year" -> Ok(Itoa(t.Y))
      [] part = "month" -> Ok(Pad2(t.M))
      [] part = "day" -> Ok(Pad2(t.D))
      [] part = "date" -> Ok(FormatDate(t))
      [] part = "julian" -> Ok(Itoa(modifiedJulianDay(t)))
      [] part = "hour" -> Ok(Pad2(t.h))
      [] part = "minute" -> Ok(Pad2(t.m))
      [] part = "second" -> Ok(Pad2(t.s))
      [] part = "time" -> Ok(FormatTime(t))
      [] part = "iso8601" ->
            Ok(FormatDate(t) \o <<84>> \o FormatTime(t) \o FormatZone(t, <<58>>))
      [] part = "std11" ->
            Ok(DayNames[Weekday(t) + 1] \o <<44, 32>> \o Pad2(t.D) \o <<32>>
               \o MonthNames[t.M] \o <<32>> \o Pad4(t.Y) \o <<32>> \o FormatTime(t)
               \o <<32>> \o FormatZone(t, <<>>))
      [] part = "zone" -> Ok(FormatZone(t, <<>>))
      [] part = "weekday" -> Ok(Itoa(Weekday(t)))
      [] OTHER -> Fail("unknown date-part")

\* parseDateHeader on the header values used: the instant of the values
\* that mail.ParseDate or one of the layouts parses
DateTable ==
    ("1 Apr 1997 09:06:31 -0800" :>
        [Y |-> 1997, M |-> 4, D |-> 1, h |-> 9, m |-> 6, s |-> 31, off |-> 0 - 28800])
    @@ ("Tue, 1 Apr 1997 09:06:31 -0800 (PST)" :>
        [Y |-> 1997, M |-> 4, D |-> 1, h |-> 9, m |-> 6, s |-> 31, off |-> 0 - 28800])

\* parseDateHeader accepts the value, which it trims first
DateParses(value) == \E v \in DOMAIN DateTable : Bytes(v) = TrimSpace(Bytes(value))

\* parseDateHeader on a value it accepts
parseDateHeader(value) ==
    DateTable[CHOOSE v \in DOMAIN DateTable : Bytes(v) = TrimSpace(Bytes(value))]

\* the test carries a :zone that parseZoneOffset accepts
HasZone(t) == t.Zone # None /\ t.Zone[1] # <<>> /\ parseZoneOffsetOk(t.Zone[1])

\* DateTest.applyZone
applyZone(t, time) ==
    IF t.OriginalZone THEN time
    ELSE IF HasZone(t) THEN InZone(time, parseZoneOffset(t.Zone[1]))
    ELSE InZone(time, LocalOffset)

\* the end of DateTest.Check and CurrentDateTest.Check: the part is
\* extracted and matched with the keys
DatePartMatch(s, t, rd, part) ==
    IF part.err # NoErr THEN Raises(part.err)
    ELSE tryMatch(s, rd, t.matcher, part.val)

\* DateTest.Check on the header value selected
DateValue(s, t, rd, value) ==
    IF ~DateParses(value) THEN Returns(FALSE)
    ELSE DatePartMatch(s, t, rd,
             extractDatePart(applyZone(t, parseDateHeader(value)),
                             ToLower(expandVars(s, rd, t.DatePart))))

\* DateTest.Check past the :count branch: idx the 0-based position of the
\* value the test is about
DateSelect(s, t, rd, values, idx) ==
    IF idx < 0 \/ idx >= Len(values) THEN Returns(FALSE)
    ELSE DateValue(s, t, rd, values[idx + 1])

\* DateTest.Check past the read of the header
DateRead(s, t, rd, r) ==
    IF r.err # NoErr THEN Raises(r.err)
    ELSE IF isCount(t.matcher)
    THEN Returns(countMatches(s, rd, t.matcher,
                    Cardinality({i \in 1..Len(r.values) : DateParses(r.values[i])})))
    ELSE IF Len(r.values) = 0 THEN Returns(FALSE)
    ELSE DateSelect(s, t, rd, r.values,
                    IF t.Index > 0 THEN EditIdx(t, Len(r.values)) ELSE 0)

\* DateTest.Check
DateTestCheck(s, t, rd) == DateRead(s, t, rd, HeaderGet(rd, expandVars(s, rd, t.Header)))

\* CurrentDateTest.Check, now the instant time.Now returns
CurrentDateTestCheck(s, t, rd, now) ==
    DatePartMatch(s, t, rd,
        extractDatePart(IF HasZone(t) THEN InZone(now, parseZoneOffset(t.Zone[1])) ELSE now,
                        ToLower(expandVars(s, rd, t.DatePart))))

\* time.Now: the reading of the host's clock at this call. rd.Clock holds
\* the readings the clock gives to the calls still to come, in their order
TimeNow(rd) == Head(rd.Clock)

\* the readings left after a call of time.Now; the last one stays
Ticked(rd) == IF Len(rd.Clock) > 1 THEN [rd EXCEPT !.Clock = Tail(@)] ELSE rd

\* ------------------------------------------------------------------ tests
\* size test comparing with >= and <=
SizeTestCheckInclusive(t, d) ==
    (t.Over /\ d.Msg.Size >= t.Size) \/ (t.Under /\ d.Msg.Size <= t.Size)

\* SizeTest.Check
SizeTestCheck(t, d) ==
    (t.Over /\ d.Msg.Size > t.Size) \/ (t.Under /\ d.Msg.Size < t.Size)

\* a result of Check from what a test that leaves d alone returned
WithData(r, d) == [val |-> r.val, err |-> r.err, d |-> d]

RECURSIVE ExistsFrom(_, _, _)
RECURSIVE ExistsRead(_, _, _, _)
\* ExistsTest.Check: every listed field has a value
ExistsFrom(s, fields, d) ==
    IF fields = <<>> THEN Tested(TRUE, d)
    ELSE ExistsRead(s, fields, d, HeaderGet(d, expandVars(s, d, Head(fields))))

\* the loop body of ExistsTest.Check, r the values read for the first field
ExistsRead(s, fields, d, r) ==
    IF r.err # NoErr THEN TestFailed(r.err, d)
    ELSE IF Len(r.values) = 0 THEN Tested(FALSE, [d EXCEPT !.Msg = r.msg])
    ELSE ExistsFrom(s, Tail(fields), [d EXCEPT !.Msg = r.msg])

\* mailboxexists asking the host about every listed mailbox
MailboxesFromNoStop(s, mailboxes, d) ==
    LET names == expandVarsList(s, d, mailboxes)
    IN IF d.Policy.HasChecker
       THEN Tested(\A i \in 1..Len(names) : names[i] \in d.Policy.Existing,
                   [d EXCEPT !.Policy.Calls = @ \o names])
       ELSE Tested(TRUE, d)

RECURSIVE MailboxesFrom(_, _, _)
\* MailboxExistsTest.Check: the host's MailboxChecker is asked about each
\* mailbox in turn; d.Policy.Calls is the host's record of the calls
MailboxesFrom(s, mailboxes, d) ==
    IF mailboxes = <<>> THEN Tested(TRUE, d)
    ELSE LET mailbox == expandVars(s, d, Head(mailboxes))
         IN IF d.Policy.HasChecker
            THEN LET d1 == [d EXCEPT !.Policy.Calls = Append(@, mailbox)]
                 IN IF mailbox \in d.Policy.Failing
                    THEN TestFailed("MailboxExists: host error", d1)
                    ELSE IF mailbox \notin d.Policy.Existing
                    THEN Tested(FALSE, d1)
                    ELSE MailboxesFrom(s, Tail(mailboxes), d1)
            ELSE MailboxesFrom(s, Tail(mailboxes), d)

\* NotTest.Check after the inner test returned r
Negated(r) == IF r.err # NoErr THEN TestFailed(r.err, r.d) ELSE Tested(~r.val, r.d)

\* AllOfTest.Check returning false for an empty list
AllOfEmptyFalse(s, tests, d) == Tested(FALSE, d)

RECURSIVE Check(_, _, _)
RECURSIVE AllOfFrom(_, _, _)
RECURSIVE AllOfRest(_, _, _)
RECURSIVE AnyOfRest(_, _, _)
\* AllOfTest.Check: false at the first test that is false, true at the end
AllOfFrom(s, tests, d) ==
    IF tests = <<>> THEN Tested(TRUE, d)
    ELSE AllOfRest(s, Tail(tests), Check(s, Head(tests), d))

\* the loop of AllOfTest.Check after a test returned r
AllOfRest(s, tests, r) ==
    IF r.err # NoErr THEN TestFailed(r.err, r.d)
    ELSE IF ~r.val THEN Tested(FALSE, r.d)
    ELSE AllOfFrom(s, tests, r.d)

RECURSIVE AnyOfFrom(_, _, _)
\* AnyOfTest.Check: true at the first test that is true, false at the end
AnyOfFrom(s, tests, d) ==
    IF tests = <<>> THEN Tested(FALSE, d)
    ELSE AnyOfRest(s, Tail(tests), Check(s, Head(tests), d))

\* the loop of AnyOfTest.Check after a test returned r
AnyOfRest(s, tests, r) ==
    IF r.err # NoErr THEN TestFailed(r.err, r.d)
    ELSE IF r.val THEN Tested(TRUE, r.d)
    ELSE AnyOfFrom(s, tests, r.d)

\* NotTest.Check
NotCheck(s, t, d) == Negated(Check(s, t.Test, d))

\* Test.Check, by variant
Check(s, t, d) ==
    CASE t.op = "size"   -> Tested(SizeTestCheck(t, d), d)
      [] t.op = "true"   -> Tested(TRUE, d)
      [] t.op = "false"  -> Tested(FALSE, d)
      [] t.op = "exists" -> ExistsFrom(s, t.Fields, d)
      [] t.op = "header" -> HeaderFrom(s, t, t.Header, d, 0)
      [] t.op = "address" -> WithData(AddressTestCheck(s, t, d), d)
      [] t.op = "envelope" -> WithData(EnvelopeTestCheck(s, t, d), d)
      [] t.op = "date" -> WithData(DateTestCheck(s, t, d), d)
      [] t.op = "currentdate" ->
            WithData(CurrentDateTestCheck(s, t, d, TimeNow(d)), Ticked(d))
      [] t.op = "mailboxexists" -> MailboxesFrom(s, t.Mailboxes, d)
      [] t.op = "allof"  -> AllOfFrom(s, t.Tests, d)
      [] t.op = "anyof"  -> AnyOfFrom(s, t.Tests, d)
      [] t.op = "not"    -> NotCheck(s, t, d)
      [] OTHER           -> TestFailed("test not evaluated in this model", d)

\* --------------------------------------------------------------- commands
\* results of Execute: the RuntimeData afterwards and the error returned
Done(d) == [d |-> d, err |-> NoErr]
Abort(d, msg) == [d |-> d, err |-> msg]

\* keep that cancels the implicit keep
ExecKeepClearsImplicit(s, c, d) ==
    Done([d EXCEPT !.Keep = TRUE, !.ImplicitKeep = FALSE,
                   !.Flags = IF c.Flags = None THEN @
                             ELSE canonicalFlags(expandVarsList(s, d, c.Flags[1]), <<>>)])

\* CmdKeep.Execute
ExecKeep(s, c, d) ==
    Done([d EXCEPT !.Keep = TRUE,
                   !.Flags = IF c.Flags = None THEN @
                             ELSE canonicalFlags(expandVarsList(s, d, c.Flags[1]), <<>>)])

\* CmdDiscard.Execute
ExecDiscard(s, c, d) == Done([d EXCEPT !.ImplicitKeep = FALSE])

\* fileinto that cancels the implicit keep with :copy too
ExecFileIntoCopyClears(s, c, d) ==
    LET mailbox == expandVars(s, d, c.Mailbox)
    IN Done([d EXCEPT
         !.Mailboxes = Append(@, mailbox),
         !.ImplicitKeep = FALSE,
         !.Policy.Created = IF c.Create /\ d.Policy.HasCreator
                            THEN @ \cup {mailbox} ELSE @,
         !.Flags = IF c.Flags = None THEN @
                   ELSE canonicalFlags(expandVarsList(s, d, c.Flags[1]), <<>>)])

\* CmdFileInto.Execute
ExecFileInto(s, c, d) ==
    LET mailbox == expandVars(s, d, c.Mailbox)
    IN Done([d EXCEPT
         !.Mailboxes = Append(@, mailbox),
         !.ImplicitKeep = IF c.Copy THEN @ ELSE FALSE,
         !.Policy.Created = IF c.Create /\ d.Policy.HasCreator
                            THEN @ \cup {mailbox} ELSE @,
         !.Flags = IF c.Flags = None THEN @
                   ELSE canonicalFlags(expandVarsList(s, d, c.Flags[1]), <<>>)])

\* CmdRedirect.Execute
ExecRedirect(s, c, d) ==
    LET addr == expandVars(s, d, c.Addr)
    IN IF Len(d.RedirectAddr) >= s.opts.MaxRedirects
       THEN Abort(d, "too many redirects")
       ELSE Done([d EXCEPT !.RedirectAddr = Append(@, addr),
                           !.ImplicitKeep = IF c.Copy THEN @ ELSE FALSE])

\* vacation that answers the user's own addresses too
ExecVacationNoSkip(s, c, d) ==
    LET subject0 == expandVars(s, d, c.Subject)
        subject == IF subject0 = "" THEN "Automated reply" ELSE subject0
        sender == d.Envelope.From
    IN IF sender = ""
       THEN Abort(d, "vacation: failed to get sender from envelope")
       ELSE Done([d EXCEPT
              !.VacationResponses = MapPut(@, sender,
                  [From |-> expandVars(s, d, c.From), Subject |-> subject,
                   Body |-> expandVars(s, d, c.Reason), IsMime |-> c.Mime,
                   Handle |-> expandVars(s, d, c.Handle), Days |-> c.Days]),
              !.ImplicitKeep = FALSE])

\* vacation that records the response and leaves implicit keep alone
ExecVacationKeepsImplicit(s, c, d) ==
    LET subject0 == expandVars(s, d, c.Subject)
        subject == IF subject0 = "" THEN "Automated reply" ELSE subject0
        addresses == expandVarsList(s, d, c.Addresses)
        sender == d.Envelope.From
    IN IF sender = ""
       THEN Abort(d, "vacation: failed to get sender from envelope")
       ELSE IF \E i \in 1..Len(addresses) : addresses[i] = sender
       THEN Done(d)
       ELSE Done([d EXCEPT
              !.VacationResponses = MapPut(@, sender,
                  [From |-> expandVars(s, d, c.From), Subject |-> subject,
                   Body |-> expandVars(s, d, c.Reason), IsMime |-> c.Mime,
                   Handle |-> expandVars(s, d, c.Handle), Days |-> c.Days])])

\* vacation that stores the loader's default in place of the :days value
ExecVacationDefaultDays(s, c, d) ==
    LET subject0 == expandVars(s, d, c.Subject)
        subject == IF subject0 = "" THEN "Automated reply" ELSE subject0
        addresses == expandVarsList(s, d, c.Addresses)
        sender == d.Envelope.From
    IN IF sender = ""
       THEN Abort(d, "vacation: failed to get sender from envelope")
       ELSE IF \E i \in 1..Len(addresses) : addresses[i] = sender
       THEN Done(d)
       ELSE Done([d EXCEPT
              !.VacationResponses = MapPut(@, sender,
                  [From |-> expandVars(s, d, c.From), Subject |-> subject,
                   Body |-> expandVars(s, d, c.Reason), IsMime |-> c.Mime,
                   Handle |-> expandVars(s, d, c.Handle), Days |-> 7]),
              !.ImplicitKeep = FALSE])

\* vacation that cancels the implicit keep even when it skips the sender
ExecVacationClearsOnSkip(s, c, d) ==
    LET subject0 == expandVars(s, d, c.Subject)
        subject == IF subject0 = "" THEN "Automated reply" ELSE subject0
        addresses == expandVarsList(s, d, c.Addresses)
        sender == d.Envelope.From
    IN IF sender = ""
       THEN Abort(d, "vacation: failed to get sender from envelope")
       ELSE IF \E i \in 1..Len(addresses) : addresses[i] = sender
       THEN Done([d EXCEPT !.ImplicitKeep = FALSE])
       ELSE Done([d EXCEPT
              !.VacationResponses = MapPut(@, sender,
                  [From |-> expandVars(s, d, c.From), Subject |-> subject,
                   Body |-> expandVars(s, d, c.Reason), IsMime |-> c.Mime,
                   Handle |-> expandVars(s, d, c.Handle), Days |-> c.Days]),
              !.ImplicitKeep = FALSE])

\* CmdVacation.Execute
ExecVacation(s, c, d) ==
    LET subject0 == expandVars(s, d, c.Subject)
        subject == IF subject0 = "" THEN "Automated reply" ELSE subject0
        from == expandVars(s, d, c.From)
        reason == expandVars(s, d, c.Reason)
        handle == expandVars(s, d, c.Handle)
        addresses == expandVarsList(s, d, c.Addresses)
        sender == d.Envelope.From
    IN IF sender = ""
       THEN Abort(d, "vacation: failed to get sender from envelope")
       ELSE IF \E i \in 1..Len(addresses) : addresses[i] = sender
       THEN Done(d)
       ELSE Done([d EXCEPT
              !.VacationResponses = MapPut(@, sender,
                  [From |-> from, Subject |-> subject, Body |-> reason,
                   IsMime |-> c.Mime, Handle |-> handle, Days |-> c.Days]),
              !.ImplicitKeep = FALSE])

\* CmdSetFlag.Execute
ExecSetFlag(s, c, d) ==
    Done([d EXCEPT !.Flags = canonicalFlags(expandVarsList(s, d, c.Flags), <<>>)])

\* CmdAddFlag.Execute
ExecAddFlag(s, c, d) ==
    Done([d EXCEPT !.Flags = canonicalFlags(@ \o expandVarsList(s, d, c.Flags), <<>>)])

\* CmdRemoveFlag.Execute
ExecRemoveFlag(s, c, d) ==
    Done([d EXCEPT !.Flags = canonicalFlags(@, expandVarsList(s, d, c.Flags))])

\* CmdSet.Execute: variable names are lower-cased keys
ExecSet(s, c, d) ==
    Done([d EXCEPT !.Variables = MapPut(@, ToLower(c.Name), expandVars(s, d, c.Value))])

\* addheader that journals every addition as one made with :last
ExecAddHeaderAlwaysLast(s, c, d) ==
    IF ~isValidHeaderName(expandVars(s, d, c.FieldName)) THEN Done(d)
    ELSE Done([d EXCEPT !.HeaderEdits = Append(@,
             [Action |-> "add", FieldName |-> expandVars(s, d, c.FieldName),
              Value |-> expandVars(s, d, c.Value), Last |-> TRUE, Index |-> 0])])

\* CmdAddHeader.Execute: an invalid field name is ignored, any other is
\* journalled
ExecAddHeader(s, c, d) ==
    LET fieldName == expandVars(s, d, c.FieldName)
        value == expandVars(s, d, c.Value)
    IN IF ~isValidHeaderName(fieldName) THEN Done(d)
       ELSE Done([d EXCEPT !.HeaderEdits = Append(@,
                [Action |-> "add", FieldName |-> fieldName, Value |-> value,
                 Last |-> c.Last, Index |-> 0])])

\* CmdDeleteHeader.valueMatchesPatterns: tryMatch on the trimmed value for
\* each pattern until one call matches or fails. Every call tests the same
\* value against the matcher's keys, so the first call decides; the
\* match-type of a loaded command is never empty. A panic of testString
\* leaves the call as it left tryMatch
valueMatchesPatterns(s, c, d, value, patterns) ==
    IF patterns = <<>> THEN Returns(FALSE)
    ELSE tryMatch(s, d, c.matcher, TrimSpace(Bytes(value)))

RECURSIVE DeleteLoop(_, _, _, _, _, _)
\* the loop over the values after valueMatchesPatterns ended with r for the
\* first: an error skips the value, a match journals its deletion, a panic
\* leaves Execute
DeleteNext(s, c, d1, fieldName, values, patterns, r) ==
    IF r.err = PanicCount THEN Abort(d1, PanicCount)
    ELSE DeleteLoop(s, c,
                    IF r.err = NoErr /\ r.val
                    THEN [d1 EXCEPT !.HeaderEdits = Append(@,
                            [Action |-> "delete", FieldName |-> fieldName,
                             Value |-> Head(values), Last |-> FALSE, Index |-> 0])]
                    ELSE d1,
                    fieldName, Tail(values), patterns)

\* CmdDeleteHeader.Execute without :index: every value is checked, in order
DeleteLoop(s, c, d1, fieldName, values, patterns) ==
    IF values = <<>> THEN Done(d1)
    ELSE DeleteNext(s, c, d1, fieldName, values, patterns,
                    valueMatchesPatterns(s, c, d1, Head(values), patterns))

\* CmdDeleteHeader.Execute with :index after valueMatchesPatterns ended with
\* r for the occurrence named: only a match journals the deletion
DeleteAt(c, d1, fieldName, value, r) ==
    IF r.err = PanicCount THEN Abort(d1, PanicCount)
    ELSE IF r.err # NoErr \/ ~r.val THEN Done(d1)
    ELSE Done([d1 EXCEPT !.HeaderEdits = Append(@,
             [Action |-> "delete", FieldName |-> fieldName, Value |-> value,
              Last |-> c.Last, Index |-> c.Index])])

\* deleteheader that journals deletions of protected headers too
ExecDeleteHeaderUnprotected(s, c, d) ==
    LET fieldName == expandVars(s, d, c.FieldName)
    IN IF ~isValidHeaderName(fieldName) THEN Done(d)
       ELSE Done([d EXCEPT !.HeaderEdits = Append(@,
                [Action |-> "delete", FieldName |-> fieldName, Value |-> "",
                 Last |-> c.Last, Index |-> c.Index])])

\* CmdDeleteHeader.Execute with value patterns, past the read of the
\* field's current values: the entries journalled for `values`
DeleteValues(s, c, d1, fieldName, valuePatterns, values) ==
    IF Len(values) = 0 THEN Done(d1)
    ELSE IF c.Index > 0
    THEN LET idx == IF c.Last THEN Len(values) - c.Index ELSE c.Index - 1
         IN IF idx < 0 \/ idx >= Len(values) THEN Done(d1)
            ELSE DeleteAt(c, d1, fieldName, values[idx + 1],
                          valueMatchesPatterns(s, c, d1, values[idx + 1], valuePatterns))
    ELSE DeleteLoop(s, c, d1, fieldName, values, valuePatterns)

\* d.Msg.HeaderGet(fieldName) returned got; the journal is replayed on the
\* values it returned
DeleteRead(s, c, d, fieldName, valuePatterns, got) ==
    IF got.err # NoErr THEN Done(d)
    ELSE DeleteValues(s, c, [d EXCEPT !.Msg = got.msg], fieldName, valuePatterns,
                 applyHeaderEditsToValues([d EXCEPT !.Msg = got.msg],
                                          fieldName, got.values).result)

\* CmdDeleteHeader.Execute
ExecDeleteHeader(s, c, d) ==
    LET fieldName == expandVars(s, d, c.FieldName)
        valuePatterns == expandVarsList(s, d, c.ValuePatterns)
    IN IF ~isValidHeaderName(fieldName) THEN Done(d)
       ELSE IF isProtectedHeader(fieldName) THEN Done(d)
       ELSE IF Len(valuePatterns) = 0
       THEN Done([d EXCEPT !.HeaderEdits = Append(@,
                [Action |-> "delete", FieldName |-> fieldName, Value |-> "",
                 Last |-> c.Last, Index |-> c.Index])])
       ELSE DeleteRead(s, c, d, fieldName, valuePatterns, HeaderGet(d, fieldName))

RECURSIVE Execute(_, _, _)
RECURSIVE ExecBlock(_, _, _)
RECURSIVE ExecChecked(_, _, _)
RECURSIVE ExecRest(_, _, _)
\* a block runs its commands in order and stops at the first error
ExecBlock(s, cmds, d) ==
    IF cmds = <<>> THEN Done(d)
    ELSE ExecRest(s, Tail(cmds), Execute(s, Head(cmds), d))

\* the rest of a block after a command returned r
ExecRest(s, cmds, r) == IF r.err # NoErr THEN r ELSE ExecBlock(s, cmds, r.d)

\* CmdIf.Execute: the block runs when the test is true
ExecIf(s, c, d) == ExecChecked(s, c, Check(s, c.Test, d))

\* the command `if` after its test returned t
ExecChecked(s, c, t) ==
    IF t.err # NoErr THEN Abort(t.d, t.err)
    ELSE IF t.val THEN ExecBlock(s, c.Block, t.d) ELSE Done(t.d)

\* Cmd.Execute, by variant
Execute(s, c, d) ==
    CASE c.op = "keep"       -> ExecKeep(s, c, d)
      [] c.op = "discard"    -> ExecDiscard(s, c, d)
      [] c.op = "fileinto"   -> ExecFileInto(s, c, d)
      [] c.op = "redirect"   -> ExecRedirect(s, c, d)
      [] c.op = "vacation"   -> ExecVacation(s, c, d)
      [] c.op = "setflag"    -> ExecSetFlag(s, c, d)
      [] c.op = "addflag"    -> ExecAddFlag(s, c, d)
      [] c.op = "removeflag" -> ExecRemoveFlag(s, c, d)
      [] c.op = "set"        -> ExecSet(s, c, d)
      [] c.op = "if"         -> ExecIf(s, c, d)
      [] c.op = "addheader"    -> ExecAddHeader(s, c, d)
      [] c.op = "deleteheader" -> ExecDeleteHeader(s, c, d)
      [] OTHER               -> Abort(d, "command not executed in this model")

\* an instant: the wall-clock fields and the zone offset in seconds
Instant2026 == [Y |-> 2026, M |-> 10, D |-> 29, h |-> 23, m |-> 30, s |-> 0, off |-> 0]
Instant1997 == [Y |-> 1997, M |-> 12, D |-> 31, h |-> 9, m |-> 59, s |-> 59, off |-> 0 - 28800]

\* NewRuntimeData for the host's policy, envelope and message; d.Msg is the
\* EditableMessage over msg (Msg holds msg, Editable says it is wrapped).
\* clock is not an argument of the code: it lists the readings the host's
\* clock gives to the calls of time.Now during the evaluation
NewRuntimeData(p, e, msg, clock) ==
    [ImplicitKeep |-> TRUE, Keep |-> FALSE,
     Mailboxes |-> <<>>, RedirectAddr |-> <<>>, Flags |-> <<>>,
     VacationResponses |-> EmptyMap, Variables |-> EmptyMap,
     HeaderEdits |-> <<>>,
     Envelope |-> e, Msg |-> msg, Editable |-> TRUE, Policy |-> p, Clock |-> clock,
     Namespace |-> None, testName |-> "", testFailMessage |-> "",
     testScript |-> None]

\* ------------------------------------------------------------------ state
VARIABLES
    script,   \* the loaded Script: extensions and options
    d,        \* the RuntimeData of the evaluation
    pc,       \* "run", then "done" (script ended), "failed" (a command erred)
              \* or "panicked" (a command panicked)
    steps,    \* number of top-level commands executed
    cmd,      \* the command executed last, as parsed (NoCmd before the first)
    err,      \* the error the last command returned
    tst,      \* the test checked last, as parsed, with its result
    ran,      \* history: a discard or a fileinto/redirect/vacation without
              \* :copy has been executed
    acted,    \* history: a discard, a fileinto/redirect without :copy that
              \* returned no error, or a vacation for a sender that is
              \* non-empty and not among its :addresses, has been executed
    ld,       \* SpecLoad: the script handed to Load and what Load returned
    rx        \* SpecRegex: the regex evaluation under way and its history

vars == <<script, d, pc, steps, cmd, err, tst, ran, acted, ld, rx>>

\* ----------------------------------------------------------- input domains
Senders == {"", "a@x", "b@x"}
Sizes == 0..MaxSize

FlagLists == {<<"Seen">>, <<"seen", "Flagged">>, <<"SEEN", "Seen">>}

KeepCmds == {[name |-> "keep", flags |-> f] : f \in {None, Some(<<"Seen", "SEEN">>)}}

DiscardCmds == {[name |-> "discard"]}

FileIntoCmds ==
    {[name |-> "fileinto", mailbox |-> m, copy |-> c, create |-> o.create,
      flags |-> o.flags] :
        m \in {"m1", "m2"}, c \in BOOLEAN,
        o \in {[create |-> FALSE, flags |-> None], [create |-> TRUE, flags |-> None],
               [create |-> FALSE, flags |-> Some(<<"Flagged", "flagged">>)]}}

RedirectCmds ==
    {[name |-> "redirect", addr |-> a, copy |-> c] : a \in {"r@x", "${v}"}, c \in BOOLEAN}

VacationCmds ==
    {[name |-> "vacation", days |-> o.days, subject |-> o.subject, from |-> o.from,
      addresses |-> a, mime |-> o.mime, handle |-> o.handle, reason |-> "Away"] :
        o \in {[days |-> None, subject |-> None, from |-> None, mime |-> FALSE,
                handle |-> None],
               [days |-> Some(14), subject |-> Some("Out"), from |-> Some("me@x"),
                mime |-> TRUE, handle |-> Some("h1")],
               [days |-> Some(0), subject |-> Some(""), from |-> None,
                mime |-> FALSE, handle |-> Some("${v}")]},
        a \in {None, Some(<<"b@x", "a@x">>), Some(<<"${v}">>), Some(<<"">>)}}

FlagCmds ==
    {[name |-> n, flags |-> f] : n \in {"setflag", "addflag", "removeflag"}, f \in FlagLists}

SetCmds == {[name |-> "set", var |-> n, value |-> v] : n \in {"v", "V"}, v \in {"", "a@x"}}

SizeTests == {[name |-> "size", tags |-> t, num |-> n] : t \in SUBSET {"over", "under"}, n \in Sizes}

IfCmds ==
    {[name |-> "if", test |-> t, block |-> <<b>>] :
        t \in SizeTests, b \in {[name |-> "keep", flags |-> None]}}

\* the evaluations: the script's extension set and MaxRedirects option, the
\* envelope senders and the message sizes it is run on
Evaluations ==
    {[exts |-> {}, mr |-> 1, from |-> {"a@x"}, size |-> Sizes],
     [exts |-> {}, mr |-> DefaultMaxRedirects, from |-> {"a@x"}, size |-> Sizes],
     [exts |-> {"fileinto", "copy"}, mr |-> DefaultMaxRedirects, from |-> {"a@x"}, size |-> {1}],
     [exts |-> {"copy"}, mr |-> 1, from |-> {"a@x"}, size |-> {1}],
     [exts |-> {"fileinto", "mailbox"}, mr |-> DefaultMaxRedirects, from |-> {"a@x"}, size |-> {1}],
     [exts |-> {"fileinto", "imap4flags"}, mr |-> DefaultMaxRedirects, from |-> {"a@x"}, size |-> {1}],
     [exts |-> {"vacation"}, mr |-> DefaultMaxRedirects, from |-> Senders, size |-> {1}],
     [exts |-> {"vacation", "variables"}, mr |-> DefaultMaxRedirects, from |-> Senders, size |-> {1}]}

HostAll == HostOf(Extensions)

\* ---------------------------------------------------------------- history
RECURSIVE Leaves(_, _, _)
RECURSIVE LeavesBlock(_, _, _)
RECURSIVE LeavesRest(_, _, _)
RECURSIVE LeavesIf(_, _, _, _)
\* the commands other than `if` that Execute(s, c, d) runs, each with the
\* RuntimeData it started from and the error it returned
LeavesBlock(s, cmds, dd) ==
    IF cmds = <<>> THEN <<>>
    ELSE Leaves(s, Head(cmds), dd) \o LeavesRest(s, Tail(cmds), Execute(s, Head(cmds), dd))

LeavesRest(s, cmds, r) == IF r.err # NoErr THEN <<>> ELSE LeavesBlock(s, cmds, r.d)

LeavesIf(s, c, dd, t) ==
    IF t.err = NoErr /\ t.val THEN LeavesBlock(s, c.Block, dd) ELSE <<>>

Leaves(s, c, dd) ==
    IF c.op = "if"
    THEN LeavesIf(s, c, dd, Check(s, c.Test, dd))
    ELSE <<[c |-> c, pre |-> dd, err |-> Execute(s, c, dd).err]>>

\* a delivery action without :copy
IsNonCopyDelivery(c) ==
    \/ c.op \in {"discard", "vacation"}
    \/ c.op \in {"fileinto", "redirect"} /\ ~c.Copy

\* the vacation command c answers the sender of dd
VacationAnswers(s, c, dd) ==
    /\ dd.Envelope.From # ""
    /\ \A i \in 1..Len(c.Addresses) :
          expandVars(s, dd, c.Addresses[i]) # dd.Envelope.From

\* a delivery action without :copy that took effect
IsEffectiveDelivery(s, l) ==
    \/ l.c.op = "discard"
    \/ l.c.op \in {"fileinto", "redirect"} /\ ~l.c.Copy /\ l.err = NoErr
    \/ l.c.op = "vacation" /\ VacationAnswers(s, l.c, l.pre)

NoLoad == [done |-> FALSE]
NoRegex == [phase |-> "none"]
NoCmd == [name |-> "none"]
NoTest == [test |-> [name |-> "none"], res |-> FALSE]

\* ------------------------------------------------------------ evaluation
Init ==
    /\ \E e \in Evaluations :
         LET r == LoadScript(e.exts, <<>>, [MaxRedirects |-> e.mr], HostAll)
         IN /\ r.err = NoErr
            /\ script = [extensions |-> r.val.extensions, opts |-> r.val.opts]
            /\ \E from \in e.from, size \in e.size :
                 d = NewRuntimeData([HasCreator |-> TRUE, Created |-> {}],
                                    [From |-> from, To |-> "to@x", Auth |-> ""],
                                    [Size |-> size], <<Instant2026>>)
    /\ pc = "run"
    /\ steps = 0
    /\ cmd = NoCmd
    /\ err = NoErr
    /\ tst = NoTest
    /\ ran = FALSE
    /\ acted = FALSE
    /\ ld = NoLoad
    /\ rx = NoRegex

\* the command executed returned r; ls are the commands it ran
Returned(r, ls) ==
    /\ d' = r.d
    /\ err' = r.err
    /\ pc' = After(r.err)
    /\ ran' = (ran \/ \E i \in 1..Len(ls) : IsNonCopyDelivery(ls[i].c))
    /\ acted' = (acted \/ \E i \in 1..Len(ls) : IsEffectiveDelivery(script, ls[i]))

\* the loaded command c of p is executed on d
Executed(p, c) ==
    /\ Returned(Execute(script, c, d), Leaves(script, c, d))
    /\ tst' = IF c.op = "if"
              THEN [test |-> p.test, res |-> Check(script, c.Test, d).val]
              ELSE tst

\* Script.Execute reaches the command p: p was loaded with the script, is
\* executed on d, and an error ends the evaluation
Step(p) ==
    /\ pc = "run"
    /\ steps < MaxSteps
    /\ loadCmd(script, p).err = NoErr
    /\ Executed(p, loadCmd(script, p).val)
    /\ cmd' = p
    /\ steps' = steps + 1
    /\ UNCHANGED <<script, ld, rx>>

Keep == pc = "run" /\ \E p \in KeepCmds : Step(p)
Discard == pc = "run" /\ \E p \in DiscardCmds : Step(p)
FileInto == pc = "run" /\ \E p \in FileIntoCmds : Step(p)
Redirect == pc = "run" /\ \E p \in RedirectCmds : Step(p)
Vacation == pc = "run" /\ \E p \in VacationCmds : Step(p)
SetFlag == pc = "run" /\ \E p \in {q \in FlagCmds : q.name = "setflag"} : Step(p)
AddFlag == pc = "run" /\ \E p \in {q \in FlagCmds : q.name = "addflag"} : Step(p)
RemoveFlag == pc = "run" /\ \E p \in {q \in FlagCmds : q.name = "removeflag"} : Step(p)
SetVar == pc = "run" /\ \E p \in SetCmds : Step(p)
If == pc = "run" /\ \E p \in IfCmds : Step(p)

\* the script has no further command
Finish ==
    /\ pc = "run"
    /\ pc' = "done"
    /\ UNCHANGED <<script, d, steps, cmd, err, tst, ran, acted, ld, rx>>

Next ==
    \/ Keep \/ Discard \/ FileInto \/ Redirect \/ Vacation
    \/ SetFlag \/ AddFlag \/ RemoveFlag \/ SetVar \/ If
    \/ Finish

Spec == Init /\ [][Next]_vars

\* ------------------------------------------------------------------- Load
KeepPlain == [name |-> "keep", flags |-> None]

\* tests as parsed, for the loader
HeaderTests ==
    {[name |-> "header", match |-> m, header |-> <<"Subject">>, key |-> <<"k">>] :
        m \in {<<>>, <<"is">>, <<"contains">>, <<"regex">>}}

AddressTests ==
    {[name |-> "address", match |-> <<>>, part |-> pt, header |-> <<"From">>,
      key |-> <<"k">>] :
        pt \in {<<>>, <<"localpart">>, <<"user">>, <<"detail">>, <<"all", "domain">>}}

EnvelopeTests ==
    {[name |-> "envelope", match |-> <<>>, part |-> pt, field |-> <<"from">>,
      key |-> <<"k">>] :
        pt \in {<<>>, <<"domain">>, <<"user">>, <<"detail">>}}

DateTests ==
    {[name |-> "date", match |-> <<>>, zone |-> z, originalzone |-> FALSE,
      index |-> ix, last |-> FALSE, header |-> "Date", datepart |-> dp,
      key |-> <<"17">>] :
        z \in {None, Some(<<"+", "0", "0", "0", "0">>)}, ix \in {None, Some(1)},
        dp \in {"hour", "Hour"}}

CurrentDateTests ==
    {[name |-> "currentdate", match |-> <<>>, zone |-> None, datepart |-> dp,
      key |-> <<"17">>] : dp \in {"hour", "Year", "fortnight"}}
    \cup {[name |-> "currentdate", match |-> <<"is", "contains">>, zone |-> None,
           datepart |-> dp, key |-> <<"17">>] : dp \in {"hour", "fortnight"}}

OtherTests ==
    {[name |-> "mailboxexists", mailboxes |-> <<"INBOX">>],
     [name |-> "exists", fields |-> <<"Subject">>],
     [name |-> "true"]}

\* tests over other tests: not over a test of an extension, and lists
\* holding one
NestedTests ==
    {[name |-> "not", tests |-> <<t>>] :
        t \in {h \in HeaderTests : h.match = <<"regex">>} \cup {[name |-> "true"]}}
    \cup {[name |-> n, tests |-> <<[name |-> "true"], t>>] :
            n \in {"allof", "anyof"},
            t \in {[name |-> "mailboxexists", mailboxes |-> <<"INBOX">>],
                   [name |-> "not", tests |-> <<[name |-> "exists",
                                                 fields |-> <<"Subject">>]>>]}}
    \cup {[name |-> "allof", tests |-> <<>>]}

LoadTests ==
    HeaderTests \cup AddressTests \cup EnvelopeTests \cup DateTests
    \cup CurrentDateTests \cup OtherTests \cup NestedTests
    \cup {t \in SizeTests : t.num = 1}

EditHeaderCmds ==
    {[name |-> "addheader", last |-> l, field |-> "X-Test", value |-> "hello"] :
        l \in BOOLEAN}
    \cup {[name |-> "deleteheader", match |-> <<>>, index |-> ix, last |-> l,
           field |-> "X-Test", patterns |-> <<>>] :
            ix \in {None, Some(1)}, l \in BOOLEAN}
    \cup {[name |-> "deleteheader", match |-> <<"is", "contains">>, index |-> None,
           last |-> l, field |-> "X-Test", patterns |-> ps] :
            l \in BOOLEAN, ps \in {<<>>, <<"a">>}}

\* the commands of the scripts handed to Load
LoadCmds ==
    {[name |-> "if", test |-> t, block |-> <<KeepPlain>>] : t \in LoadTests}
    \cup EditHeaderCmds
    \cup {p \in VacationCmds : p.addresses = None}
    \cup {p \in FileIntoCmds : p.mailbox = "m1"}
    \cup {p \in RedirectCmds : p.addr = "r@x"}
    \cup KeepCmds \cup DiscardCmds
    \cup {p \in FlagCmds : p.flags = <<"Seen">>}
    \cup {p \in SetCmds : p.var = "v"}

\* the names the require statements of the scripts are drawn from: the
\* extensions of the constructs used, relational, and one unknown name
RequireNames ==
    {"fileinto", "copy", "vacation", "imap4flags", "mailbox", "editheader",
     "date", "index", "envelope", "subaddress", "regex", "variables",
     "relational", "bogus"}

\* the names of a require statement
RequireSets == {S \in SUBSET RequireNames : Cardinality(S) <= MaxRequire}

\* Options.EnabledExtensions: nil, every extension, or some
Hosts == {HostNil, HostAll, HostOf({"fileinto", "vacation", "envelope", "regex"})}

InitLoad ==
    /\ script = [extensions |-> {}, opts |-> DefaultInterpOptions, cmds |-> <<>>]
    /\ d = NewRuntimeData([HasCreator |-> TRUE, Created |-> {}],
                          [From |-> "a@x", To |-> "to@x", Auth |-> ""],
                          [Size |-> 1], <<Instant2026>>)
    /\ pc = "load"
    /\ steps = 0
    /\ cmd = NoCmd
    /\ err = NoErr
    /\ tst = NoTest
    /\ ran = FALSE
    /\ acted = FALSE
    /\ ld = NoLoad
    /\ rx = NoRegex

\* Load on the script `require names; cmds` under the host's options
LoadWith(host, names, cmds) ==
    /\ pc = "load"
    /\ LET r == Load(names, cmds, [Interp |-> DefaultInterpOptions,
                                   EnabledExtensions |-> host])
       IN /\ ld' = [done |-> TRUE, host |-> host, names |-> names, cmds |-> cmds,
                    err |-> r.err]
          /\ script' = IF r.err = NoErr THEN r.val ELSE script
          /\ pc' = IF r.err = NoErr THEN "loaded" ELSE "loadfailed"
    /\ UNCHANGED <<d, steps, cmd, err, tst, ran, acted, rx>>

\* a script of require statements alone
LoadRequires ==
    /\ pc = "load"
    /\ \E host \in Hosts, names \in RequireSets : LoadWith(host, names, <<>>)

\* a script with one command after its require statements
LoadCommand ==
    /\ pc = "load"
    /\ \E host \in Hosts, names \in RequireSets, p \in LoadCmds :
          LoadWith(host, names, <<p>>)

NextLoad == LoadRequires \/ LoadCommand

SpecLoad == InitLoad /\ [][NextLoad]_vars

\* ================================================================= claims
\* the last step executed a top-level command
Stepped == steps' = steps + 1

\* the (variable-expanded) :addresses of the parsed vacation command p
AddressesOf(p, dd) ==
    IF p.addresses = None THEN {}
    ELSE {expandVars(script, dd, p.addresses[1][i]) : i \in 1..Len(p.addresses[1])}

\* the expanded value of an optional string tag, "" when the tag is absent
TagValue(opt, dd) == IF opt = None THEN "" ELSE expandVars(script, dd, opt[1])

\* the parsed command p is a delivery action without :copy
NonCopyDelivery(p) ==
    \/ p.name \in {"discard", "vacation"}
    \/ p.name \in {"fileinto", "redirect"} /\ ~p.copy

\* ---- C1
\* C1 as stated: when an evaluation has ended, ImplicitKeep is true iff no
\* discard and no fileinto, redirect or vacation without :copy was executed.
C1_FinalImplicitKeepIffNoneExecuted ==
    pc = "done" => (d.ImplicitKeep <=> ~ran)

\* C1 amended: ImplicitKeep starts true, and when an evaluation has ended
\* (normally or by an error) it is true iff the evaluation executed no
\* discard, no fileinto or redirect without :copy that was carried out, and
\* no vacation whose envelope sender is non-empty and outside its :addresses;
\* a vacation that is skipped or fails leaves it as it was.
C1_FinalImplicitKeepIffNoneTookEffect ==
    /\ steps = 0 => d.ImplicitKeep
    /\ pc \in {"done", "failed"} => (d.ImplicitKeep <=> ~acted)

\* an evaluation ended after a vacation that was skipped: the command was
\* executed and the implicit keep is still in place
C1_Witness ==
    /\ pc = "done"
    /\ cmd.name = "vacation"
    /\ d.Envelope.From \in AddressesOf(cmd, d)
    /\ ran /\ ~acted /\ d.ImplicitKeep

\* ---- C2
\* C2 as stated: after discard and after every fileinto, redirect and
\* vacation without :copy that executed without error, ImplicitKeep is
\* false, for vacation whatever the envelope sender and :addresses are.
C2_NonCopyDeliveryAlwaysClears ==
    (steps > 0 /\ NonCopyDelivery(cmd) /\ err = NoErr) => ~d.ImplicitKeep

\* C2 amended: discard, and every fileinto and redirect without :copy that
\* is carried out, clear ImplicitKeep; vacation clears it when the envelope
\* sender is non-empty and not among its :addresses, and otherwise (skipped,
\* or failed on an empty sender) leaves ImplicitKeep unchanged.
C2_NonCopyDeliveryClearsWhenEffective ==
    [][Stepped =>
         /\ cmd'.name = "discard" => ~d'.ImplicitKeep
         /\ (cmd'.name \in {"fileinto", "redirect"} /\ ~cmd'.copy /\ err' = NoErr)
               => ~d'.ImplicitKeep
         /\ cmd'.name = "vacation" =>
               IF d.Envelope.From # "" /\ d.Envelope.From \notin AddressesOf(cmd', d)
               THEN ~d'.ImplicitKeep
               ELSE d'.ImplicitKeep = d.ImplicitKeep]_vars

\* a vacation has recorded a response and cancelled the implicit keep
C2_Witness ==
    /\ cmd.name = "vacation"
    /\ d.Envelope.From \in DOMAIN d.VacationResponses
    /\ ~d.ImplicitKeep

\* ---- C3
\* C3: keep, with or without :flags, sets Keep and leaves ImplicitKeep as it
\* was, so an evaluation whose only action is keep ends with both true.
C3_KeepSetsKeepOnly ==
    /\ [][(Stepped /\ cmd'.name = "keep") =>
             (d'.Keep /\ d'.ImplicitKeep = d.ImplicitKeep)]_vars
    /\ []((pc = "done" /\ steps = 1 /\ cmd.name = "keep") =>
             (d.Keep /\ d.ImplicitKeep))

\* keep :flags was executed after a discard: Keep is set and the implicit
\* keep stays cancelled
C3_Witness ==
    /\ cmd.name = "keep" /\ cmd.flags # None
    /\ steps = 2 /\ acted
    /\ d.Keep /\ ~d.ImplicitKeep

\* ---- C4
\* C4: fileinto :copy and redirect :copy record the mailbox or address as
\* the forms without :copy do and leave ImplicitKeep unchanged, and a script
\* executing them requires "copy".
C4_CopyRecordsAndKeepsImplicit ==
    [][Stepped =>
         /\ cmd'.name = "fileinto" =>
               /\ d'.Mailboxes = Append(d.Mailboxes, expandVars(script, d, cmd'.mailbox))
               /\ cmd'.copy => /\ d'.ImplicitKeep = d.ImplicitKeep
                               /\ "copy" \in script.extensions
         /\ (cmd'.name = "redirect" /\ err' = NoErr) =>
               /\ d'.RedirectAddr = Append(d.RedirectAddr, expandVars(script, d, cmd'.addr))
               /\ cmd'.copy => /\ d'.ImplicitKeep = d.ImplicitKeep
                               /\ "copy" \in script.extensions]_vars

\* fileinto :copy has recorded its mailbox with the implicit keep in place
C4_Witness ==
    /\ cmd.name = "fileinto" /\ cmd.copy
    /\ Len(d.Mailboxes) = 1 /\ d.Mailboxes[1] = cmd.mailbox
    /\ d.ImplicitKeep

\* ---- C5
\* C5 as stated: a vacation whose envelope sender equals one of its
\* (variable-expanded) :addresses is skipped: VacationResponses is unchanged
\* and no error is returned.
C5_OwnAddressSkipped ==
    [][(Stepped /\ cmd'.name = "vacation"
          /\ d.Envelope.From \in AddressesOf(cmd', d)) =>
         (d'.VacationResponses = d.VacationResponses /\ err' = NoErr)]_vars

\* C5 amended: a vacation whose envelope sender is non-empty and equals one
\* of its (variable-expanded) :addresses is skipped: VacationResponses is
\* unchanged and no error is returned; with an empty envelope sender the
\* command returns an error even when :addresses lists the empty string.
C5_NonEmptyOwnAddressSkipped ==
    [][(Stepped /\ cmd'.name = "vacation") =>
         /\ (d.Envelope.From # "" /\ d.Envelope.From \in AddressesOf(cmd', d)) =>
               (d' = d /\ err' = NoErr)
         /\ d.Envelope.From = "" =>
               (d'.VacationResponses = d.VacationResponses /\ err' # NoErr)]_vars

\* a second vacation listing the sender was skipped after a first one had
\* recorded a response, which is still there
C5_Witness ==
    /\ cmd.name = "vacation" /\ steps = 2
    /\ d.Envelope.From # "" /\ d.Envelope.From \in AddressesOf(cmd, d)
    /\ d.Envelope.From \in DOMAIN d.VacationResponses
    /\ err = NoErr

\* ---- C6
\* the response a vacation command p records, the subject defaulting only
\* when the tag is absent
ResponseAsStated(p, dd) ==
    [Days    |-> IF p.days = None THEN 7 ELSE p.days[1],
     Subject |-> IF p.subject = None THEN "Automated reply" ELSE TagValue(p.subject, dd),
     Body    |-> expandVars(script, dd, p.reason),
     From    |-> TagValue(p.from, dd),
     Handle  |-> TagValue(p.handle, dd),
     IsMime  |-> p.mime]

\* C6 as stated: a vacation for a non-empty envelope sender outside its
\* :addresses leaves exactly one response for that sender, with Days, Subject
\* ("Automated reply" when :subject is absent), Body, From, Handle and IsMime
\* taken from the command, replacing any earlier response.
C6_ResponseFromTags ==
    [][(Stepped /\ cmd'.name = "vacation"
          /\ d.Envelope.From # "" /\ d.Envelope.From \notin AddressesOf(cmd', d)) =>
         /\ DOMAIN d'.VacationResponses = {d.Envelope.From}
         /\ d'.VacationResponses[d.Envelope.From] = ResponseAsStated(cmd', d)]_vars

\* C6 amended: as stated, except that Subject is the (variable-expanded)
\* :subject value when that is non-empty and "Automated reply" when :subject
\* is absent or its value is the empty string.
C6_ResponseFromTagsSubjectDefault ==
    [][(Stepped /\ cmd'.name = "vacation"
          /\ d.Envelope.From # "" /\ d.Envelope.From \notin AddressesOf(cmd', d)) =>
         /\ DOMAIN d'.VacationResponses = {d.Envelope.From}
         /\ d'.VacationResponses[d.Envelope.From] =
               [ResponseAsStated(cmd', d) EXCEPT
                  !.Subject = IF TagValue(cmd'.subject, d) = ""
                              THEN "Automated reply" ELSE TagValue(cmd'.subject, d)]
         /\ err' = NoErr]_vars

\* a second vacation, with :days 14, has replaced the response of a first one
C6_Witness ==
    /\ cmd.name = "vacation" /\ steps = 2 /\ cmd.days = Some(14)
    /\ DOMAIN d.VacationResponses = {d.Envelope.From}
    /\ d.VacationResponses[d.Envelope.From].Days = 14
    /\ d.VacationResponses[d.Envelope.From].Subject = "Out"

\* ---- C7
\* C7: Flags always holds lower-case names without duplicates, and after
\* removeflag it holds none of the removed flags in any letter case.
C7_FlagsCanonical ==
    /\ \A i \in 1..Len(d.Flags) :
          /\ ToLower(d.Flags[i]) = d.Flags[i]
          /\ \A j \in 1..Len(d.Flags) : d.Flags[i] = d.Flags[j] => i = j
    /\ cmd.name = "removeflag" =>
          \A i \in 1..Len(cmd.flags) :
             \A j \in 1..Len(d.Flags) :
                d.Flags[j] # ToLower(expandVars(script, d, cmd.flags[i]))

\* removeflag "Seen" has removed the flag stored as "seen" and left another
C7_Witness ==
    /\ cmd.name = "removeflag" /\ cmd.flags = <<"Seen">>
    /\ steps = 2
    /\ d.Flags = <<"flagged">>

\* ---- C8
RECURSIVE TestUses(_)
\* the extension constructs the parsed test t uses, those of the tests
\* under not, allof and anyof included
TestUses(t) ==
    (IF t.name \in {"allof", "anyof", "not"}
     THEN UNION {TestUses(t.tests[i]) : i \in 1..Len(t.tests)} ELSE {})
    \cup (IF t.name \in {"date", "currentdate"} THEN {"date"} ELSE {})
    \cup (IF t.name = "mailboxexists" THEN {"mailbox"} ELSE {})
    \cup (IF t.name = "envelope" THEN {"envelope"} ELSE {})
    \cup (IF t.name \in {"address", "envelope"}
             /\ \E i \in 1..Len(t.part) : t.part[i] \in {"user", "detail"}
          THEN {"subaddress"} ELSE {})
    \cup (IF t.name = "header" /\ \E i \in 1..Len(t.match) : t.match[i] = "regex"
          THEN {"regex"} ELSE {})

\* the extension constructs the parsed command p uses
CmdUses(p) ==
    (IF p.name = "vacation" THEN {"vacation"} ELSE {})
    \cup (IF p.name \in {"addheader", "deleteheader"} THEN {"editheader"} ELSE {})
    \cup (IF p.name = "fileinto" /\ p.create THEN {"mailbox"} ELSE {})
    \cup (IF p.name \in {"fileinto", "redirect"} /\ p.copy THEN {"copy"} ELSE {})
    \cup (IF p.name = "if" THEN TestUses(p.test) ELSE {})

\* C8: a script using vacation, addheader or deleteheader, date or
\* currentdate, mailboxexists or fileinto :create, envelope, :user or
\* :detail, header :regex, or :copy without requiring the extension the
\* construct belongs to fails to load.
C8_ConstructNeedsRequire ==
    (ld.done /\ Len(ld.cmds) = 1 /\ ~(CmdUses(ld.cmds[1]) \subseteq ld.names))
        => ld.err # NoErr

\* a script testing header :regex without any require was refused by a host
\* that enables every extension
C8_Witness ==
    /\ ld.done /\ Len(ld.cmds) = 1
    /\ ld.host = HostAll /\ ld.names = {}
    /\ CmdUses(ld.cmds[1]) = {"regex"}
    /\ ld.err # NoErr /\ pc = "loadfailed"

\* ---- C9
\* C9: Load returns a Script whose extension set is exactly the set its
\* require statements name, every member enabled by the host, or an error;
\* with EnabledExtensions nil a script requiring an extension fails to load.
C9_ExtensionsAreRequiredAndEnabled ==
    ld.done =>
        /\ ld.err = NoErr =>
              /\ script.extensions = ld.names
              /\ \A n \in ld.names : ~ld.host.nil /\ n \in ld.host.names
        /\ (ld.host.nil /\ ld.names # {}) => ld.err # NoErr

\* what Load does: the extension set of the Script is the set its require
\* statements name, and a host that gave a list enabled every member
LoadedAsRequired ==
    (ld.done /\ ld.err = NoErr) =>
        /\ script.extensions = ld.names
        /\ ~ld.host.nil => ld.names \subseteq ld.host.names

\* a script requiring an extension was loaded with EnabledExtensions nil
LoadedUnderNil ==
    /\ ld.done /\ ld.err = NoErr /\ pc = "loaded"
    /\ ld.host.nil /\ "vacation" \in ld.names
    /\ script.extensions = ld.names

\* ---- C10
\* C10: a loaded size test carries exactly one of :over and :under; it is
\* true iff the message size is strictly greater than N under :over and
\* strictly less than N under :under, so it is false when the size equals N.
C10_SizeStrict ==
    tst.test.name = "size" =>
        /\ Cardinality(tst.test.tags) = 1
        /\ tst.res <=> IF "over" \in tst.test.tags
                       THEN d.Msg.Size > tst.test.num
                       ELSE d.Msg.Size < tst.test.num

\* size :over N was checked on a message of exactly N octets and was false
C10_Witness ==
    /\ tst.test.name = "size" /\ tst.test.tags = {"over"}
    /\ d.Msg.Size = tst.test.num /\ tst.test.num > 0
    /\ ~tst.res /\ ~d.Keep

\* ------------------------------------------------------------- test_set
\* results of the test dialect's commands: the RuntimeData, the error and
\* the Script d.Script points to, whose options a command can write
DDone(rd, s) == [d |-> rd, err |-> NoErr, s |-> s]
DAbort(rd, s, msg) == [d |-> rd, err |-> msg, s |-> s]

\* the address CmdDovecotTestSet stores for value: the original string when
\* its parse failed
StoredAddress(value, parsed) == IF parsed.err # NoErr THEN value ELSE parsed.val

\* textproto ReadMIMEHeader on the message texts used, with their lengths
MessageTable ==
    ("Subject: b" :> [Size |-> 14, Header |-> <<[name |-> "Subject", values |-> <<"b">>]>>])

\* CmdDovecotTestSet.Execute, value the expanded c.VariableValue; a message
\* is assigned to d.Msg as a MessageStatic, in place of the EditableMessage
TestSetValue(s, c, rd, value) ==
    CASE c.VariableName = "message" ->
            IF c.VariableValue \in DOMAIN MessageTable
            THEN DDone([rd EXCEPT !.Msg = MessageTable[c.VariableValue],
                                  !.Editable = FALSE], s)
            ELSE DAbort(rd, s, "failed to parse test message")
      [] c.VariableName = "envelope.from" ->
            DDone([rd EXCEPT !.Envelope.From =
                      StoredAddress(value, parseEnvelopeAddress(value))], s)
      [] c.VariableName = "envelope.to" ->
            DDone([rd EXCEPT !.Envelope.To =
                      StoredAddress(value, parseEnvelopeAddress(value))], s)
      [] c.VariableName = "envelope.auth" ->
            DDone([rd EXCEPT !.Envelope.Auth = value], s)
      [] OTHER ->
            DDone([rd EXCEPT !.Variables = MapPut(@, c.VariableName, c.VariableValue)], s)

\* CmdDovecotTestSet.Execute
ExecDovecotTestSet(s, c, rd) ==
    TestSetValue(s, c, rd, expandVars(s, rd, c.VariableValue))

\* ------------------------------------------------- editheader evaluation
\* the message the editheader evaluations run on
EditMessage ==
    [Size |-> 1,
     Header |-> <<[name |-> "Subject", values |-> <<"a", "b">>],
                  [name |-> "Received", values |-> <<"a">>]>>]

AddHeaderCmds ==
    {[name |-> "addheader", last |-> o.last, field |-> o.field, value |-> o.value] :
        o \in {[field |-> "X-Test", value |-> "a", last |-> FALSE],
               [field |-> "x-test", value |-> "b", last |-> TRUE],
               [field |-> "Subject", value |-> " a ", last |-> FALSE],
               [field |-> "!~", value |-> "a", last |-> FALSE],
               [field |-> "Received", value |-> "b", last |-> TRUE],
               [field |-> "", value |-> "a", last |-> FALSE],
               [field |-> "X:Bad", value |-> "a", last |-> TRUE],
               [field |-> "X<09>", value |-> "a", last |-> FALSE]}}

DeleteHeaderCmds ==
    {[name |-> "deleteheader", field |-> o.field, index |-> o.index, last |-> o.last,
      match |-> o.match, patterns |-> o.patterns] :
        o \in {[field |-> "x-test", index |-> None, last |-> FALSE, match |-> <<>>,
                patterns |-> <<>>],
               [field |-> "Subject", index |-> None, last |-> FALSE, match |-> <<>>,
                patterns |-> <<>>],
               [field |-> "RECEIVED", index |-> Some(1), last |-> FALSE, match |-> <<>>,
                patterns |-> <<>>],
               [field |-> "Auto-Submitted", index |-> None, last |-> FALSE,
                match |-> <<>>, patterns |-> <<"a">>],
               [field |-> "X Bad", index |-> None, last |-> FALSE, match |-> <<>>,
                patterns |-> <<>>],
               [field |-> "X<7F>", index |-> Some(1), last |-> TRUE, match |-> <<>>,
                patterns |-> <<>>],
               [field |-> "Subject", index |-> Some(1), last |-> FALSE, match |-> <<>>,
                patterns |-> <<>>],
               [field |-> "Subject", index |-> None, last |-> FALSE, match |-> <<"is">>,
                patterns |-> <<"A">>],
               [field |-> "Subject", index |-> Some(2), last |-> FALSE,
                match |-> <<"contains">>, patterns |-> <<"b">>]}}

\* `if <test> {}` for the header reads
ReadCmds ==
    {[name |-> "if", test |-> t, block |-> <<>>] :
        t \in {[name |-> "exists", fields |-> <<"X-Test">>],
               [name |-> "exists", fields |-> <<"Subject", "Received">>],
               [name |-> "header", match |-> <<"is">>, header |-> <<"Subject">>,
                key |-> <<"B">>]}}

\* the script requires editheader and, being a script of the test suite,
\* the test dialect
InitEdit ==
    /\ LET r == LoadScript({"editheader"}, <<>>, DefaultInterpOptions, HostAll)
       IN /\ r.err = NoErr
          /\ script = [extensions |-> r.val.extensions \cup {DovecotTestExtension},
                       opts |-> r.val.opts]
    /\ d = NewRuntimeData([HasCreator |-> TRUE, Created |-> {}],
                          [From |-> "a@x", To |-> "to@x", Auth |-> ""],
                          EditMessage, <<Instant2026>>)
    /\ pc = "run"
    /\ steps = 0
    /\ cmd = NoCmd
    /\ err = NoErr
    /\ tst = NoTest
    /\ ran = FALSE
    /\ acted = FALSE
    /\ ld = NoLoad
    /\ rx = NoRegex

AddHeader == pc = "run" /\ \E p \in AddHeaderCmds : Step(p)
DeleteHeader == pc = "run" /\ \E p \in DeleteHeaderCmds : Step(p)
ReadHeader == pc = "run" /\ \E p \in ReadCmds : Step(p)

\* test_set "message": the message of the evaluation is replaced
TestSetCmds ==
    {[op |-> "test_set", VariableName |-> "message", VariableValue |-> "Subject: b"]}

\* Script.Execute reaches a test_set command of the script
TestSet ==
    /\ pc = "run"
    /\ steps < MaxSteps
    /\ RequiresExtension(script, DovecotTestExtension)
    /\ \E c \in TestSetCmds :
          /\ d' = ExecDovecotTestSet(script, c, d).d
          /\ err' = ExecDovecotTestSet(script, c, d).err
          /\ pc' = After(ExecDovecotTestSet(script, c, d).err)
          /\ cmd' = [name |-> c.op, c |-> c]
    /\ steps' = steps + 1
    /\ UNCHANGED <<script, tst, ran, acted, ld, rx>>

NextEdit == AddHeader \/ DeleteHeader \/ ReadHeader \/ TestSet \/ Finish

SpecEdit == InitEdit /\ [][NextEdit]_vars

\* ---------------------------------------------------- editheader claims
\* the header names the claims probe
ProbeNames == {"X-Test", "x-test", "Subject", "Received", "!~"}

\* the exists test on one field, on the current RuntimeData
ExistsNow(N) == Check(script, [op |-> "exists", Fields |-> <<N>>], d).val

\* the journal positions whose entry names N, case-insensitively
EntriesFor(N) == {i \in 1..Len(d.HeaderEdits) : EqualFold(d.HeaderEdits[i].FieldName, N)}

SetMax(S) == CHOOSE x \in S : \A y \in S : y <= x

RECURSIVE Replayed(_, _)
\* the values of N after the first n journal entries, as the specification
\* states them: every entry for N applied once, in journal order
Replayed(N, n) ==
    IF n = 0 THEN MessageHeaderGet(EditMessage, N)
    ELSE LET prev == Replayed(N, n - 1)
             e == d.HeaderEdits[n]
             k == IF e.Last THEN Len(prev) + 1 - e.Index ELSE e.Index
         IN IF ~EqualFold(e.FieldName, N) THEN prev
            ELSE IF e.Action = "add"
            THEN IF e.Last THEN prev \o <<e.Value>> ELSE <<e.Value>> \o prev
            ELSE IF e.Index > 0
            THEN IF k \in 1..Len(prev)
                 THEN [i \in 1..(Len(prev) - 1) |-> IF i < k THEN prev[i] ELSE prev[i + 1]]
                 ELSE prev
            ELSE IF e.Value # "" THEN DeleteFirst(prev, e.Value)
            ELSE <<>>

\* the value of a test of ReadCmds, from the replayed values
ReadAsStated(t) ==
    IF t.name = "exists"
    THEN \A i \in 1..Len(t.fields) : Replayed(t.fields[i], Len(d.HeaderEdits)) # <<>>
    ELSE LET vs == Replayed(t.header[1], Len(d.HeaderEdits))
         IN \E i \in 1..Len(vs) :
               testString("i;ascii-casemap", t.match[1], "", Bytes(vs[i]), Bytes(t.key[1]),
                          NoRx).val

\* a deleteheader without value patterns and without :index
PlainDelete(p) ==
    p.name = "deleteheader" /\ p.patterns = <<>> /\ p.index = None

\* C11: header and exists tests see the base values with every journal entry
\* applied in order, names compared case-insensitively; a field whose last
\* journal entry is an addheader exists, a field whose last journal entry is
\* a deleteheader without patterns and :index does not, and right after such
\* a command on a valid, unprotected name the same holds
C11_TestsReadThroughOverlay ==
    /\ \A N \in ProbeNames :
          /\ HeaderGet(d, N).values = Replayed(N, Len(d.HeaderEdits))
          /\ EntriesFor(N) # {} =>
                LET e == d.HeaderEdits[SetMax(EntriesFor(N))]
                IN /\ e.Action = "add" => ExistsNow(N)
                   /\ (e.Action = "delete" /\ e.Index = 0 /\ e.Value = "") => ~ExistsNow(N)
    /\ (cmd.name = "addheader" /\ isValidHeaderName(cmd.field)) => ExistsNow(cmd.field)
    /\ (PlainDelete(cmd) /\ isValidHeaderName(cmd.field) /\ ~isProtectedHeader(cmd.field))
          => ~ExistsNow(cmd.field)
    /\ (cmd.name = "if" /\ tst.test \in {p.test : p \in ReadCmds})
          => tst.res = ReadAsStated(tst.test)

\* what the code does: the reads go through the journal for as long as
\* d.Msg is the EditableMessage the evaluation started with
ReadsThroughOverlayWhileWrapped == d.Editable => C11_TestsReadThroughOverlay

\* a field was added, the message was replaced by test_set, and the exists
\* test on the field then read false
ReadPastJournal ==
    /\ cmd.name = "if"
    /\ tst.test = [name |-> "exists", fields |-> <<"X-Test">>]
    /\ ~tst.res
    /\ ~d.Editable
    /\ Len(d.HeaderEdits) = 1
    /\ d.HeaderEdits[1].Action = "add" /\ d.HeaderEdits[1].FieldName = "X-Test"

\* the command executed by this step is ignored for its field name
IgnoredEdit(p) ==
    /\ p.name \in {"addheader", "deleteheader"}
    /\ \/ ~isValidHeaderName(p.field)
       \/ p.name = "deleteheader" /\ isProtectedHeader(p.field)

\* no journal entry names an invalid field, no delete entry a protected one
JournalClean(j) ==
    \A i \in 1..Len(j) :
        /\ isValidHeaderName(j[i].FieldName)
        /\ j[i].Action = "delete" => ~isProtectedHeader(j[i].FieldName)

\* C12: a deleteheader on a protected header (Received, Auto-Submitted, in
\* any case) and an addheader or deleteheader with an invalid field name
\* return no error and leave the journal, and the RuntimeData, unchanged; the
\* journal never names an invalid field and never deletes a protected header
C12_InvalidAndProtectedIgnored ==
    [][/\ (steps' = steps + 1 /\ IgnoredEdit(cmd'))
            => (d' = d /\ err' = NoErr /\ pc' = "run")
       /\ JournalClean(d'.HeaderEdits)]_vars

\* a deleteheader on a protected header was executed on a non-empty journal
C12_Witness ==
    /\ cmd.name = "deleteheader"
    /\ cmd.field = "RECEIVED"
    /\ Len(d.HeaderEdits) > 0
    /\ err = NoErr
    /\ pc = "run"

\* reading N twice from dd gives the same values and leaves the message of
\* dd as it was
ReplayStable(dd, N) ==
    LET r1 == HeaderGet(dd, N)
        r2 == HeaderGet([dd EXCEPT !.Msg = r1.msg], N)
    IN /\ r1.values = r2.values
       /\ r1.msg = dd.Msg
       /\ r2.msg = dd.Msg

\* C13: the overlay is deterministic and idempotent: replaying the same
\* journal over the same base values gives the same sequence, and a replay
\* changes neither the base values nor the journal, so a step that only
\* reads headers leaves the RuntimeData as it was
C13_ReplayIsPure ==
    [][/\ (steps' = steps + 1 /\ cmd'.name = "if") => d' = d
       /\ \A N \in ProbeNames : ReplayStable(d', N)]_vars

\* a header was read twice over a journal holding a delete by index
C13_Witness ==
    /\ steps = 3
    /\ cmd.name = "if" /\ tst.test.name = "header" /\ tst.test.header = <<"Subject">>
    /\ Len(d.HeaderEdits) = 1
    /\ d.HeaderEdits[1].FieldName = "Subject" /\ d.HeaderEdits[1].Index = 1
    /\ d.Msg = EditMessage
    /\ tst.res

\* ------------------------------------------------------ test evaluation
\* hosts: without a MailboxChecker, and with one that reports the mailboxes
\* of Existing and fails on those of Failing; Calls records its calls
TestPolicies ==
    {[HasCreator |-> FALSE, Created |-> {}, HasChecker |-> o.has,
      Existing |-> o.existing, Failing |-> o.failing, Calls |-> <<>>] :
        o \in {[has |-> FALSE, existing |-> {}, failing |-> {}],
               [has |-> TRUE, existing |-> {"m1"}, failing |-> {}],
               [has |-> TRUE, existing |-> {"m1", "m2"}, failing |-> {}],
               [has |-> TRUE, existing |-> {"m1"}, failing |-> {"m2"}]}}

MailboxLists == {<<"m1">>, <<"m1", "m2">>, <<"m2", "m1">>, <<"${v}", "m1">>, <<"m1", "m3", "m2">>}

MailboxTests == {[op |-> "mailboxexists", Mailboxes |-> l] : l \in MailboxLists}

ConstTests == {[op |-> "true"], [op |-> "false"]}

\* the loaded tests evaluated: AllOfTest, AnyOfTest and NotTest values over
\* lists of up to two tests, and MailboxExistsTest values
LoadedTests ==
    MailboxTests
    \cup {[op |-> o, Tests |-> l] :
            o \in {"allof", "anyof"},
            l \in {<<>>} \cup {<<a>> : a \in ConstTests}
                  \cup {<<a, b>> : a \in ConstTests, b \in ConstTests}
                  \cup {<<[op |-> "mailboxexists", Mailboxes |-> <<"m2">>],
                          [op |-> "mailboxexists", Mailboxes |-> <<"m1">>]>>}}
    \cup {[op |-> "not", Test |-> t] :
            t \in ConstTests \cup {[op |-> o, Tests |-> <<>>] : o \in {"allof", "anyof"}}}

MailboxSetCmds == {[name |-> "set", var |-> "v", value |-> v] : v \in {"m1", "m2"}}

InitTest ==
    /\ LET r == LoadScript({"mailbox", "variables"}, <<>>, DefaultInterpOptions, HostAll)
       IN /\ r.err = NoErr
          /\ script = [extensions |-> r.val.extensions, opts |-> r.val.opts]
    /\ \E p \in TestPolicies :
          d = NewRuntimeData(p, [From |-> "a@x", To |-> "to@x", Auth |-> ""], EditMessage,
                             <<Instant2026>>)
    /\ pc = "run"
    /\ steps = 0
    /\ cmd = NoCmd
    /\ err = NoErr
    /\ tst = NoTest
    /\ ran = FALSE
    /\ acted = FALSE
    /\ ld = NoLoad
    /\ rx = NoRegex

SetMailboxVar == pc = "run" /\ \E p \in MailboxSetCmds : Step(p)

\* the test t is checked on d, as the test of an `if` with an empty block;
\* the host's call record starts empty
CheckTest ==
    /\ pc = "run"
    /\ steps < MaxSteps
    /\ \E t \in LoadedTests :
          LET r == Check(script, t, [d EXCEPT !.Policy.Calls = <<>>])
          IN /\ d' = r.d
             /\ err' = r.err
             /\ pc' = IF r.err = NoErr THEN "run" ELSE "failed"
             /\ tst' = [test |-> t, res |-> r.val]
    /\ cmd' = [name |-> "check"]
    /\ steps' = steps + 1
    /\ UNCHANGED <<script, ran, acted, ld, rx>>

NextTest == SetMailboxVar \/ CheckTest \/ Finish

SpecTest == InitTest /\ [][NextTest]_vars

\* ------------------------------------------------------- test claims
\* the value of a true or false test
ConstValue(t) == t.op = "true"

\* the test checked last is an allof or anyof over true/false tests
OverConsts(o) ==
    /\ cmd.name = "check"
    /\ tst.test.op = o
    /\ \A i \in 1..Len(tst.test.Tests) : tst.test.Tests[i] \in ConstTests

\* C14 as stated: allof over an empty list evaluates to false, and anyof
\* over an empty list evaluates to false
C14_EmptyAllOfAndAnyOfFalse ==
    (cmd.name = "check" /\ tst.test.op \in {"allof", "anyof"} /\ tst.test.Tests = <<>>)
        => ~tst.res

\* C14, amended: allof is true exactly when none of its tests is false, so
\* allof over an empty list evaluates to true; anyof is true exactly when
\* one of its tests is true, so anyof over an empty list evaluates to false
C14_EmptyAllOfTrueAnyOfFalse ==
    /\ OverConsts("allof") =>
          tst.res = \A i \in 1..Len(tst.test.Tests) : ConstValue(tst.test.Tests[i])
    /\ OverConsts("anyof") =>
          tst.res = \E i \in 1..Len(tst.test.Tests) : ConstValue(tst.test.Tests[i])
    /\ (cmd.name = "check" /\ tst.test = [op |-> "allof", Tests |-> <<>>]) => tst.res
    /\ (cmd.name = "check" /\ tst.test = [op |-> "anyof", Tests |-> <<>>]) => ~tst.res

\* an allof over an empty list was checked and returned true without error
C14_Witness ==
    /\ cmd.name = "check"
    /\ tst.test = [op |-> "allof", Tests |-> <<>>]
    /\ tst.res
    /\ err = NoErr

\* the host reports the mailbox as existing
ReportedExisting(m) == m \in d.Policy.Existing /\ m \notin d.Policy.Failing

\* the first n names, or all of them
Prefix(seq, n) == SubSeq(seq, 1, IF n < Len(seq) THEN n ELSE Len(seq))

\* C18: mailboxexists is true exactly when every listed mailbox, after
\* variable expansion, is reported as existing by the host's MailboxChecker;
\* the host is asked in list order and not beyond the first mailbox it does
\* not report; without a MailboxChecker the test is true and nothing is asked
C18_MailboxExistsAsksInOrder ==
    (cmd.name = "check" /\ tst.test.op = "mailboxexists") =>
        LET names == expandVarsList(script, d, tst.test.Mailboxes)
            missing == {i \in 1..Len(names) : ~ReportedExisting(names[i])}
        IN IF d.Policy.HasChecker
           THEN /\ tst.res = (missing = {})
                /\ d.Policy.Calls =
                     Prefix(names, IF missing = {} THEN Len(names)
                                   ELSE CHOOSE i \in missing : \A j \in missing : i <= j)
           ELSE tst.res /\ d.Policy.Calls = <<>>

\* the second of three mailboxes was missing and the third was not asked
C18_Witness ==
    /\ cmd.name = "check"
    /\ tst.test = [op |-> "mailboxexists", Mailboxes |-> <<"m1", "m3", "m2">>]
    /\ d.Policy.HasChecker
    /\ d.Policy.Existing = {"m1", "m2"}
    /\ d.Policy.Calls = <<"m1", "m3">>
    /\ ~tst.res

\* ------------------------------------------------------ regex evaluation
\* channels without a buffer
ChanCapUnbuffered == Len(<<>>)

\* make(chan ..., 1): the capacity of the channels a worker sends on
ChanCap == 1

\* a match that reports a submatch whatever the pattern found
FoundAlways(in) == [val |-> TRUE, err |-> NoErr]

\* matchRegex after FindSubmatch returned the worker's result: a match
\* exactly when the submatch slice is not nil
Found(in) == [val |-> in.hit, err |-> NoErr]

\* the tuples evaluated without regex: strings given by their text
PlainInputs ==
    {[comparator |-> c, match |-> m, value |-> v.value, key |-> v.key] :
        c \in {"i;octet", "i;ascii-casemap"}, m \in {"is", "contains"},
        v \in {[value |-> "ab", key |-> "A"], [value |-> "a", key |-> "a"]}}

\* the :regex tuples: key (the pattern) and value given by their lengths,
\* and by what the regexp library makes of them: whether the pattern
\* compiles, whether it finds a submatch in the value, and whether the
\* search panics
RegexInputs ==
    {[comparator |-> c, match |-> "regex", klen |-> o.klen, vlen |-> o.vlen,
      compiles |-> o.compiles, hit |-> o.hit, panics |-> o.panics] :
        c \in {"i;octet", "i;ascii-casemap"},
        o \in {[klen |-> 3, vlen |-> 5, compiles |-> TRUE, hit |-> TRUE, panics |-> FALSE],
               [klen |-> 3, vlen |-> 5, compiles |-> TRUE, hit |-> FALSE, panics |-> FALSE],
               [klen |-> 3, vlen |-> 5, compiles |-> FALSE, hit |-> FALSE, panics |-> FALSE],
               [klen |-> 3, vlen |-> 5, compiles |-> TRUE, hit |-> FALSE, panics |-> TRUE],
               [klen |-> MaxPatternLength, vlen |-> MaxInputLength,
                compiles |-> TRUE, hit |-> TRUE, panics |-> FALSE],
               [klen |-> MaxPatternLength + 1, vlen |-> 5,
                compiles |-> TRUE, hit |-> TRUE, panics |-> FALSE],
               [klen |-> 3, vlen |-> MaxInputLength + 1,
                compiles |-> TRUE, hit |-> TRUE, panics |-> FALSE]}}

\* one tuple per behaviour, evaluated again and again
InitRegex ==
    /\ LET r == LoadScript({"regex"}, <<>>, DefaultInterpOptions, HostAll)
       IN /\ r.err = NoErr
          /\ script = [extensions |-> r.val.extensions, opts |-> r.val.opts]
    /\ d = NewRuntimeData([HasCreator |-> FALSE, Created |-> {}],
                          [From |-> "a@x", To |-> "to@x", Auth |-> ""],
                          EditMessage, <<Instant2026>>)
    /\ pc = "run"
    /\ steps = 0
    /\ cmd = NoCmd
    /\ err = NoErr
    /\ tst = NoTest
    /\ ran = FALSE
    /\ acted = FALSE
    /\ ld = NoLoad
    /\ \E in \in PlainInputs \cup RegexInputs :
          rx = [in |-> in, phase |-> "idle", caller |-> "running", chan |-> <<>>,
                fired |-> FALSE, exceeded |-> FALSE, both |-> FALSE,
                out |-> NoRx, seen |-> {},
                worker |-> "none", orphans |-> 0, ended |-> 0, stuck |-> 0,
                calls |-> 0, returns |-> 0, took |-> "none"]

\* testString returned o: tryMatch hands its error on, HeaderTest.Check
\* returns false with that error, and the `if` around the test returns it,
\* which ends the evaluation; without an error the script goes on
MatchDone(r, o) ==
    /\ rx' = [r EXCEPT !.phase = "idle", !.out = o, !.seen = @ \cup {o}]
    /\ tst' = [test |-> r.in, res |-> o.val]
    /\ err' = o.err
    /\ pc' = After(o.err)
    /\ cmd' = [name |-> "match"]
    /\ steps' = steps + 1
    /\ UNCHANGED <<script, d, ran, acted, ld>>

\* a call that returns on its length check, before it starts a goroutine
Refused(r) == [r EXCEPT !.calls = @ + 1, !.returns = @ + 1, !.took = "length"]

\* a goroutine is started and the caller goes on towards its select
Started(r, phase) ==
    /\ rx' = [r EXCEPT !.phase = phase, !.caller = "running", !.chan = <<>>,
                       !.fired = FALSE, !.worker = "running", !.calls = @ + 1]
    /\ UNCHANGED <<script, d, pc, steps, cmd, err, tst, ran, acted, ld>>

\* testString on a tuple without regex
MatchPlain ==
    /\ pc = "run"
    /\ steps < MaxSteps
    /\ rx.phase = "idle"
    /\ rx.in.match # "regex"
    /\ MatchDone(rx, testString(rx.in.comparator, rx.in.match, "",
                                Bytes(rx.in.value), Bytes(rx.in.key), NoRx))

\* matchRegex, CompileSafeRegex up to the start of its goroutine
CompileStart ==
    /\ pc = "run"
    /\ steps < MaxSteps
    /\ rx.phase = "idle"
    /\ rx.in.match = "regex"
    /\ LET r == [rx EXCEPT !.exceeded = FALSE, !.both = FALSE]
       IN IF PatternTooLong(rx.in.klen)
          THEN MatchDone(Refused(r), RegexFailed("regex pattern too long"))
          ELSE Started(r, "compile")

\* the call returns to its caller through the case c of its select: a
\* worker still running is left behind, a worker blocked in its send is
\* released when its case is the one taken and stays blocked otherwise
Left(r, c) ==
    [r EXCEPT !.returns = @ + 1, !.took = c, !.worker = "none",
              !.orphans = @ + (IF r.worker = "running" THEN 1 ELSE 0),
              !.stuck = @ + (IF r.worker = "blocked" /\ c = "timeout" THEN 1 ELSE 0)]

\* the select of CompileSafeRegex or FindSubmatch has taken the case c and
\* the call has returned (r is the state after the return); Match has the
\* select of FindSubmatch
Resumed(r, c) ==
    CASE r.phase = "compile" /\ c = "compiled" ->
            IF InputTooLong(r.in.vlen)
            THEN MatchDone(Refused(r), RegexFailed("input too long for regex"))
            ELSE Started(r, "match")
      [] r.phase = "compile" /\ c = "compileErr" ->
            MatchDone(r, RegexFailed("regex compile error"))
      [] r.phase = "compile" /\ c = "timeout" ->
            MatchDone(r, RegexFailed("regex compilation timeout"))
      [] r.phase = "match" /\ c = "result" -> MatchDone(r, Found(r.in))
      [] r.phase = "match" /\ c = "matchErr" -> MatchDone(r, RegexFailed("regex panic"))
      [] r.phase = "match" /\ c = "timeout" ->
            MatchDone(r, RegexFailed("regex execution timeout"))

\* the select of CompileSafeRegex or FindSubmatch takes the case c
Selected(r, c) == Resumed(Left(r, c), c)

\* the channel the goroutine sends on when its regex operation ends: the
\* compile sends the pattern or its error; the search sends its result, or,
\* from the deferred recover when it panicked, the error on matchErr
WorkerCase(r) ==
    IF r.phase = "match" THEN (IF r.in.panics THEN "matchErr" ELSE "result")
    ELSE IF r.in.compiles THEN "compiled" ELSE "compileErr"

\* the goroutine finishes and sends on its buffered channel; a caller
\* waiting in the select takes the value
WorkerDone ==
    /\ rx.phase \in {"compile", "match"}
    /\ rx.worker = "running"
    /\ IF rx.caller = "waiting"
       THEN Selected([rx EXCEPT !.worker = "ended"], WorkerCase(rx))
       ELSE /\ rx' = IF Len(rx.chan) < ChanCap
                     THEN [rx EXCEPT !.chan = <<WorkerCase(rx)>>, !.worker = "ended"]
                     ELSE [rx EXCEPT !.worker = "blocked"]
            /\ UNCHANGED <<script, d, pc, steps, cmd, err, tst, ran, acted, ld>>

\* the regex operation of a goroutine whose caller has returned ends: it
\* sends on its channel, which is empty and has no receiver any more
OrphanDone ==
    /\ rx.phase # "none"
    /\ rx.orphans > 0
    /\ rx' = IF ChanCap > 0
             THEN [rx EXCEPT !.orphans = @ - 1, !.ended = @ + 1]
             ELSE [rx EXCEPT !.orphans = @ - 1, !.stuck = @ + 1]
    /\ UNCHANGED <<script, d, pc, steps, cmd, err, tst, ran, acted, ld>>

\* MaxExecTime has passed: ctx.Done() is closed; the step has exceeded the
\* deadline when its goroutine has not sent yet
DeadlinePassed ==
    /\ rx.phase \in {"compile", "match"}
    /\ ~rx.fired
    /\ LET r == [rx EXCEPT !.fired = TRUE, !.exceeded = @ \/ rx.chan = <<>>]
       IN IF rx.caller = "waiting"
          THEN Selected(r, "timeout")
          ELSE /\ rx' = r
               /\ UNCHANGED <<script, d, pc, steps, cmd, err, tst, ran, acted, ld>>

\* the caller reaches its select: it waits when no case is ready and takes
\* any one of the ready cases otherwise
ReachSelect ==
    /\ rx.phase \in {"compile", "match"}
    /\ rx.caller = "running"
    /\ LET ready == Range(rx.chan)
                    \cup (IF rx.worker = "blocked" THEN {WorkerCase(rx)} ELSE {})
                    \cup (IF rx.fired THEN {"timeout"} ELSE {})
       IN IF ready = {}
          THEN /\ rx' = [rx EXCEPT !.caller = "waiting"]
               /\ UNCHANGED <<script, d, pc, steps, cmd, err, tst, ran, acted, ld>>
          ELSE \E c \in ready :
                  Selected([rx EXCEPT !.both = @ \/ Cardinality(ready) = 2], c)

NextRegex ==
    \/ MatchPlain \/ CompileStart \/ WorkerDone \/ DeadlinePassed \/ ReachSelect
    \/ OrphanDone

SpecRegex == InitRegex /\ [][NextRegex]_vars

\* -------------------------------------------------------- regex claims
\* what testString returns for the tuple when no deadline intervenes
ExpectedOutcome(in) ==
    IF in.match # "regex"
    THEN [val |-> IF in.value = in.key THEN TRUE
                  ELSE in.comparator = "i;ascii-casemap" /\ in.match = "contains",
          err |-> NoErr]
    ELSE IF in.klen > 1000 THEN [val |-> FALSE, err |-> "regex pattern too long"]
    ELSE IF ~in.compiles THEN [val |-> FALSE, err |-> "regex compile error"]
    ELSE IF in.vlen > 10000 THEN [val |-> FALSE, err |-> "input too long for regex"]
    ELSE IF in.panics THEN [val |-> FALSE, err |-> "regex panic"]
    ELSE [val |-> in.hit, err |-> NoErr]

\* C15 as stated: the same (value, key, comparator, match type) tuple always
\* gives the same result, :regex included
C15_SameTupleSameResult ==
    Cardinality(rx.seen) <= 1

\* C15, amended: the same tuple always gives the same result for the match
\* types without regex, and for :regex among the evaluations in which the
\* caller did not take the deadline: those all return the one outcome the
\* tuple determines
C15_SameResultUnlessDeadline ==
    /\ rx.in.match # "regex" => Cardinality(rx.seen) <= 1
    /\ \A o \in rx.seen : o.err \notin TimeoutErrors => o = ExpectedOutcome(rx.in)

\* a :regex tuple was evaluated twice and matched both times
C15_Witness ==
    /\ rx.in.match = "regex"
    /\ rx.phase = "idle"
    /\ steps = 2
    /\ rx.seen = {[val |-> TRUE, err |-> NoErr]}

\* a :regex evaluation has just returned
RegexReturned == cmd.name = "match" /\ rx.phase = "idle" /\ rx.in.match = "regex"

\* the lengths are at the limits and the pattern compiles and matches
AtLimits(in) ==
    in.klen = 1000 /\ in.vlen = 10000 /\ in.compiles /\ in.hit

\* C16 as stated: no match is reported, and the result is false with an
\* error, when the pattern is longer than 1000 bytes, the input is longer
\* than 10000 bytes, or the compile or match step exceeds 100 ms; 1000 and
\* 10000 bytes are within the limits
C16_NoMatchOverBudget ==
    RegexReturned =>
        /\ (rx.in.klen > 1000 \/ rx.in.vlen > 10000 \/ rx.exceeded)
              => (~rx.out.val /\ rx.out.err # NoErr)
        /\ (AtLimits(rx.in) /\ ~rx.fired) => rx.out = [val |-> TRUE, err |-> NoErr]

\* C16, amended: no match is reported, and the result is false with an
\* error, when the pattern is longer than 1000 bytes or the input is longer
\* than 10000 bytes (1000 and 10000 bytes are within the limits), and when
\* a step exceeds 100 ms and the caller takes the deadline; when the
\* worker's result has also arrived by the time the caller reaches its
\* select, either of the two is taken
C16_NoMatchOverLengthOrTakenDeadline ==
    RegexReturned =>
        /\ (rx.in.klen > 1000 \/ rx.in.vlen > 10000 \/ (rx.exceeded /\ ~rx.both))
              => (~rx.out.val /\ rx.out.err # NoErr)
        /\ (rx.exceeded /\ ~rx.both) => rx.out.err \in TimeoutErrors
        /\ (AtLimits(rx.in) /\ ~rx.fired) => rx.out = [val |-> TRUE, err |-> NoErr]

\* a pattern of 1000 bytes matched an input of 10000 bytes
C16_Witness ==
    /\ RegexReturned
    /\ AtLimits(rx.in)
    /\ rx.out = [val |-> TRUE, err |-> NoErr]

\* C17: when a regex evaluation ends in a limit error (length or time budget
\* exceeded) the containing test is false, no error is returned from the
\* test, and the evaluation goes on with the following commands
C17_LimitGivesFalseAndContinues ==
    (cmd.name = "match" /\ rx.phase = "idle" /\ rx.out.err \in LimitErrors) =>
        (~tst.res /\ err = NoErr /\ pc = "run")

\* what the code does with a limit error: the test returns false together
\* with the error, and the evaluation ends with that error
LimitErrorEndsEvaluation ==
    (cmd.name = "match" /\ rx.phase = "idle" /\ rx.out.err \in LimitErrors) =>
        (~tst.res /\ err = rx.out.err /\ pc = "failed")

\* an evaluation ended with the execution timeout of a regex test
LimitErrorReturned ==
    /\ RegexReturned
    /\ rx.out = RegexFailed("regex execution timeout")
    /\ err = "regex execution timeout"
    /\ pc = "failed"

\* the outcomes a call can return through the case c of its select, and,
\* under "length", on its length check
OutcomesOf(in, c) ==
    CASE c = "result" -> {Found(in)}
      [] c = "matchErr" -> {RegexFailed("regex panic")}
      [] c = "compileErr" -> {RegexFailed("regex compile error")}
      [] c = "timeout" -> {RegexFailed(e) : e \in TimeoutErrors}
      [] c = "length" -> {RegexFailed("regex pattern too long"),
                          RegexFailed("input too long for regex")}
      [] OTHER -> {}

\* the cases of the select: the worker's result, the worker's error, the
\* timeout
SelectCases == {"result", "matchErr", "compileErr", "timeout"}

\* every call has returned once, no worker is blocked in its send, and none
\* was left blocked by a caller that returned with the timeout
ReturnsOnceNoBlockedWorker ==
    /\ rx.worker # "blocked"
    /\ rx.stuck = 0
    /\ rx.calls = rx.returns + (IF rx.phase \in {"compile", "match"} THEN 1 ELSE 0)
    /\ (rx.worker = "running") => rx.phase \in {"compile", "match"}
    /\ (rx.phase = "match" /\ rx.calls > 0) => rx.took = "compiled"

\* C28 as stated: every call of CompileSafeRegex and of the matcher returns
\* to its caller once, and its outcome is the worker's result, the worker's
\* error or a timeout error; no worker goroutine blocks on sending its
\* result or error, also when its caller has already returned with a timeout
C28_WorkerOutcomeOrTimeout ==
    /\ ReturnsOnceNoBlockedWorker
    /\ RegexReturned =>
          (rx.took \in SelectCases /\ rx.out \in OutcomesOf(rx.in, rx.took))

\* C28, amended: every call of CompileSafeRegex and of the matcher returns
\* to its caller once, with the worker's result, the worker's error, a
\* timeout error, or, when the pattern or the input is over its length
\* limit, the length error, returned before any worker is started; no worker
\* goroutine blocks on sending its result or error, also when its caller has
\* already returned with a timeout: it ends when its regex operation ends
C28_OneOutcomeNoBlockedWorker ==
    /\ ReturnsOnceNoBlockedWorker
    /\ RegexReturned =>
          /\ rx.took \in SelectCases \cup {"length"}
          /\ rx.out \in OutcomesOf(rx.in, rx.took)
          /\ PatternTooLong(rx.in.klen) => (rx.took = "length" /\ rx.calls = 1)
          /\ rx.took = "length" =>
                (PatternTooLong(rx.in.klen) \/ InputTooLong(rx.in.vlen))

\* a caller returned with the execution timeout while its worker was still
\* running, and the worker has ended since
C28_Witness ==
    /\ RegexReturned
    /\ rx.out = RegexFailed("regex execution timeout")
    /\ rx.exceeded
    /\ rx.orphans = 0
    /\ rx.ended = 1
    /\ rx.calls = 2
    /\ rx.returns = 2

\* a search panicked and its caller returned the error sent by the recover
WorkerPanicReturned ==
    /\ RegexReturned
    /\ rx.took = "matchErr"
    /\ rx.out = RegexFailed("regex panic")

\* ------------------------------------------------- Dovecot test dialect
\* DefaultOptions().Interp.MaxVariableLen
DefaultMaxVariableLen == 4000

\* the interpreter options of the test suite's scripts
DovecotOptions ==
    [MaxRedirects |-> DefaultMaxRedirects, MaxVariableLen |-> DefaultMaxVariableLen,
     DisabledTests |-> {"off"}]

ErrStop == "stop"

\* strconv.Atoi on the values used
AtoiTable == ("10" :> 10) @@ ("0" :> 0)

\* RuntimeData.Copy: the RuntimeData a nested evaluation runs on. Its
\* fields start with the values of rd's; the host's objects behind Policy
\* and the host's clock are the same ones, and so is the Script
Copy(rd) == rd

\* rd after a nested evaluation that ran on Copy(rd) and left it as nd:
\* rd's own fields are what they were, and what the nested evaluation did
\* to the host's policy object and clock is there for rd as well
Shared(rd, nd) == [rd EXCEPT !.Policy = nd.Policy, !.Clock = nd.Clock]

\* CmdDovecotConfigSet.Execute
ExecDovecotConfigSet(s, c, rd) ==
    IF c.Key = "sieve_variables_max_variable_size"
    THEN IF c.Unset THEN DDone(rd, [s EXCEPT !.opts.MaxVariableLen = 4000])
         ELSE IF c.Value \notin DOMAIN AtoiTable
         THEN DAbort(rd, s, "strconv.Atoi: invalid syntax")
         ELSE DDone(rd, [s EXCEPT !.opts.MaxVariableLen = AtoiTable[c.Value]])
    ELSE DAbort(rd, s, "unknown test_config_set key")

\* the result of a command that leaves d.Script alone
WithScript(r, s) == [d |-> r.d, err |-> r.err, s |-> s]

\* CmdDovecotTestFail.Execute
ExecDovecotTestFail(s, c, rd) ==
    DAbort([rd EXCEPT !.testFailMessage = expandVars(s, rd, c.Message)], s, ErrStop)

\* the files of the Namespace: whether the file lexes and parses, the names
\* it requires and its commands
Fixtures ==
    ("keep.sieve" :> [parses |-> TRUE, names |-> {},
                      cmds |-> <<[name |-> "keep", flags |-> None]>>])
    @@ ("discard.sieve" :> [parses |-> TRUE, names |-> {},
                            cmds |-> <<[name |-> "discard"],
                                       [name |-> "redirect", addr |-> "s@x", copy |-> FALSE]>>])
    @@ ("fileinto.sieve" :> [parses |-> TRUE, names |-> {},
                             cmds |-> <<[name |-> "fileinto", mailbox |-> "m1",
                                         copy |-> FALSE, create |-> FALSE,
                                         flags |-> None]>>])
    @@ ("broken.sieve" :> [parses |-> FALSE, names |-> {}, cmds |-> <<>>])

\* the end of TestDovecotCompile.Check, LoadScript having returned r
Compiled(rd, r) ==
    IF r.err # NoErr THEN Tested(FALSE, rd)
    ELSE Tested(TRUE, [rd EXCEPT !.testScript = Some(r.val)])

\* TestDovecotCompile.Check: the script is loaded with fresh options that
\* take MaxRedirects from d.Script and with a nil list of enabled extensions
TestDovecotCompileCheck(s, t, rd) ==
    IF rd.Namespace = None
    THEN [val |-> FALSE, err |-> "RuntimeData.Namespace is not set", d |-> rd]
    ELSE IF t.ScriptPath \notin DOMAIN rd.Namespace[1] THEN Tested(FALSE, rd)
    ELSE IF ~rd.Namespace[1][t.ScriptPath].parses THEN Tested(FALSE, rd)
    ELSE Compiled(rd, LoadScript(rd.Namespace[1][t.ScriptPath].names,
                                 rd.Namespace[1][t.ScriptPath].cmds,
                                 [MaxRedirects |-> s.opts.MaxRedirects, MaxVariableLen |-> 0,
                                  DisabledTests |-> {}], HostNil))

\* the end of TestDovecotRun.Check, the script having ended with r: an
\* error makes the test false, a panic leaves the test
Ran(rd, r) ==
    IF r.err = PanicCount THEN TestFailed(PanicCount, Shared(rd, r.d))
    ELSE Tested(r.err = NoErr, Shared(rd, r.d))

\* TestDovecotRun.Check: the compiled script runs on a copy of d
TestDovecotRunCheck(s, t, rd) ==
    IF rd.testScript = None THEN Tested(FALSE, rd)
    ELSE Ran(rd, ExecBlock(rd.testScript[1], rd.testScript[1].cmds, Copy(rd)))

RECURSIVE DovecotCheck(_, _, _)
\* Test.Check for the tests the test dialect adds, and not over them
DovecotCheck(s, t, rd) ==
    CASE t.op = "test_script_compile" -> TestDovecotCompileCheck(s, t, rd)
      [] t.op = "test_script_run" -> TestDovecotRunCheck(s, t, rd)
      [] t.op = "not" -> Negated(DovecotCheck(s, t.Test, rd))
      [] OTHER -> Check(s, t, rd)

RECURSIVE ExecDovecotBlock(_, _, _)
RECURSIVE ExecDovecotChecked(_, _, _)
RECURSIVE ExecDovecotRest(_, _)
\* a test whose commands run on the RuntimeData of the caller
ExecDovecotTestInPlace(s, c, rd) ==
    DDone(ExecDovecotBlock(s, c.Cmds, rd).d, ExecDovecotBlock(s, c.Cmds, rd).s)

\* the end of CmdDovecotTest.Execute, the commands having ended with r: an
\* error ends the test, not the script; a panic is not recovered
TestEnded(rd, r) ==
    IF r.err = PanicCount THEN DAbort(Shared(rd, r.d), r.s, PanicCount)
    ELSE DDone(Shared(rd, r.d), r.s)

\* CmdDovecotTest.Execute: the commands run on a copy of d, unless the test
\* is disabled
ExecDovecotTest(s, c, rd) ==
    IF c.TestName \in s.opts.DisabledTests THEN DDone(rd, s)
    ELSE TestEnded(rd, ExecDovecotBlock(s, c.Cmds,
                          [Copy(rd) EXCEPT !.testName = c.TestName,
                                           !.testFailMessage = ""]))

\* Cmd.Execute, by command: those of the test dialect, and the others
ExecDovecotCmd(s, c, rd) ==
    CASE c.op = "test" -> ExecDovecotTest(s, c, rd)
      [] c.op = "test_config_set" -> ExecDovecotConfigSet(s, c, rd)
      [] c.op = "test_set" -> ExecDovecotTestSet(s, c, rd)
      [] c.op = "test_fail" -> ExecDovecotTestFail(s, c, rd)
      [] c.op = "if" -> ExecDovecotChecked(s, c, DovecotCheck(s, c.Test, rd))
      [] OTHER -> WithScript(Execute(s, c, rd), s)

\* the command `if` after its test returned t
ExecDovecotChecked(s, c, t) ==
    IF t.err # NoErr THEN DAbort(t.d, s, t.err)
    ELSE IF t.val THEN ExecDovecotBlock(s, c.Block, t.d)
    ELSE DDone(t.d, s)

\* the loop over c.Cmds: the first error ends it
ExecDovecotBlock(s, cmds, rd) ==
    IF cmds = <<>> THEN DDone(rd, s)
    ELSE ExecDovecotRest(Tail(cmds), ExecDovecotCmd(s, Head(cmds), rd))

\* the rest of the loop after a command returned r
ExecDovecotRest(cmds, r) ==
    IF r.err # NoErr THEN r ELSE ExecDovecotBlock(r.s, cmds, r.d)

\* Cmd.Execute for a top-level command of a test-suite script
ExecDovecot(s, c, rd) == ExecDovecotCmd(s, c, rd)

\* -------------------------------------------------- test-suite evaluation
PlainLoaded ==
    {[op |-> "keep", Flags |-> None],
     [op |-> "redirect", Addr |-> "r@x", Copy |-> FALSE],
     [op |-> "setflag", Flags |-> <<"Seen">>],
     [op |-> "addheader", FieldName |-> "X-Test", Value |-> "a", Last |-> FALSE]}

\* `if exists` on a field that only the journal gives a value
ReadLoaded ==
    {[op |-> "if", Test |-> [op |-> "exists", Fields |-> <<"X-Test">>],
      Block |-> <<[op |-> "setflag", Flags |-> <<"Edited">>]>>]}

ConfigSetLoaded ==
    {[op |-> "test_config_set", Unset |-> o.unset, Key |-> o.key, Value |-> o.value] :
        o \in {[unset |-> FALSE, key |-> "sieve_variables_max_variable_size", value |-> "10"],
               [unset |-> TRUE, key |-> "sieve_variables_max_variable_size", value |-> ""],
               [unset |-> FALSE, key |-> "sieve_variables_max_variable_size", value |-> "x"],
               [unset |-> FALSE, key |-> "sieve_max_redirects", value |-> "0"]}}

TestSetLoaded ==
    {[op |-> "test_set", VariableName |-> o.name, VariableValue |-> o.value] :
        o \in {[name |-> "message", value |-> "Subject: b"],
               [name |-> "envelope.from", value |-> "<c@x>"],
               [name |-> "envelope.to", value |-> "bad"],
               [name |-> "v", value |-> "b@x"]}}

CompileLoaded ==
    {[op |-> "if", Test |-> [op |-> "test_script_compile", ScriptPath |-> p], Block |-> <<>>] :
        p \in {"keep.sieve", "discard.sieve", "fileinto.sieve", "broken.sieve", "none.sieve"}}

RunLoaded ==
    {[op |-> "if", Test |-> [op |-> "not", Test |-> [op |-> "test_script_run"]],
      Block |-> <<[op |-> "test_fail", Message |-> "run failed"]>>]}

\* the commands of the tests
TestBodies ==
    {<<[op |-> "discard"]>>,
     <<[op |-> "fileinto", Mailbox |-> "m1", Copy |-> FALSE, Create |-> FALSE,
        Flags |-> None],
       [op |-> "addflag", Flags |-> <<"Flagged">>]>>,
     <<[op |-> "redirect", Addr |-> "t@x", Copy |-> FALSE],
       [op |-> "keep", Flags |-> None]>>,
     <<[op |-> "test_set", VariableName |-> "envelope.from", VariableValue |-> "b@x"],
       [op |-> "test_set", VariableName |-> "message", VariableValue |-> "Subject: b"]>>,
     <<[op |-> "test_config_set", Unset |-> FALSE,
        Key |-> "sieve_variables_max_variable_size", Value |-> "0"]>>,
     <<[op |-> "test_fail", Message |-> "failed"], [op |-> "discard"]>>,
     <<[op |-> "if",
        Test |-> [op |-> "allof",
                  Tests |-> <<[op |-> "currentdate",
                               matcher |-> [newMatcherTest EXCEPT !.key = <<"2026">>],
                               Zone |-> None, DatePart |-> "year"],
                              [op |-> "mailboxexists", Mailboxes |-> <<"m1">>]>>],
        Block |-> <<[op |-> "discard"]>>]>>,
     <<[op |-> "if", Test |-> [op |-> "test_script_compile", ScriptPath |-> "discard.sieve"],
        Block |-> <<[op |-> "if",
                     Test |-> [op |-> "not", Test |-> [op |-> "test_script_run"]],
                     Block |-> <<[op |-> "test_fail", Message |-> "run failed"]>>],
                    [op |-> "discard"]>>]>>}

TestLoaded ==
    {[op |-> "test", TestName |-> "t", Cmds |-> b] : b \in TestBodies}
    \cup {[op |-> "test", TestName |-> "off", Cmds |-> <<[op |-> "discard"]>>]}

InitDovecot ==
    /\ script = [extensions |-> {"vnd.dovecot.testsuite", "fileinto", "imap4flags"},
                 opts |-> DovecotOptions]
    /\ \E ns \in {None, Some(Fixtures)} :
          d = [NewRuntimeData([HasCreator |-> FALSE, Created |-> {}, HasChecker |-> TRUE,
                               Existing |-> {"m1"}, Failing |-> {}, Calls |-> <<>>],
                              [From |-> "a@x", To |-> "to@x", Auth |-> ""],
                              EditMessage, <<Instant2026, Instant1997>>)
               EXCEPT !.Namespace = ns]
    /\ pc = "run"
    /\ steps = 0
    /\ cmd = NoCmd
    /\ err = NoErr
    /\ tst = NoTest
    /\ ran = FALSE
    /\ acted = FALSE
    /\ ld = NoLoad
    /\ rx = NoRegex

\* the command executed returned r
DovecotReturned(r) ==
    /\ d' = r.d
    /\ script' = r.s
    /\ err' = r.err
    /\ pc' = After(r.err)

\* Script.Execute reaches the loaded command c of a test-suite script
DovecotStep(c) ==
    /\ steps < MaxSteps
    /\ DovecotReturned(ExecDovecot(script, c, d))
    /\ cmd' = [name |-> c.op, c |-> c]
    /\ steps' = steps + 1
    /\ tst' = IF c \in CompileLoaded
              THEN [test |-> c.Test, res |-> TestDovecotCompileCheck(script, c.Test, d).val]
              ELSE tst
    /\ UNCHANGED <<ran, acted, ld, rx>>

\* the commands a test-suite script holds outside its tests
DovecotLoaded ==
    PlainLoaded \cup ReadLoaded \cup ConfigSetLoaded \cup TestSetLoaded
    \cup CompileLoaded \cup RunLoaded

\* Script.Execute reaches a command outside a test, or a test
DovecotCommand == pc = "run" /\ \E c \in DovecotLoaded : DovecotStep(c)
DovecotTest == pc = "run" /\ \E c \in TestLoaded : DovecotStep(c)

NextDovecot == DovecotCommand \/ DovecotTest

SpecDovecot == InitDovecot /\ [][NextDovecot]_vars

\* --------------------------------------------------- test-suite properties
\* C19: a Script is read-only after loading: no command or test executed
\* during an evaluation, those of the test dialect included, changes the
\* Script's extensions or option limits
C19_ScriptReadOnly == [][script' = script]_vars

\* the fields of the RuntimeData that hold the outcome of an evaluation and
\* the envelope and message it is run on
Outcome(rd) ==
    <<rd.ImplicitKeep, rd.Keep, rd.Mailboxes, rd.RedirectAddr, rd.Flags,
      rd.Envelope, rd.Msg>>

\* the command executed last spawned a nested evaluation: a test block, or
\* an `if` over test_script_run
Nested(c) ==
    /\ "c" \in DOMAIN c
    /\ \/ c.name = "test"
       \/ c.name = "if" /\ c.c \in RunLoaded

NestedUsedHost ==
    /\ cmd.name = "test"
    /\ steps = 1
    /\ d.Clock = <<Instant1997>>
    /\ d.Policy.Calls = <<"m1">>
    /\ d.ImplicitKeep

\* what test_script_run returns on rd
RunResult(rd) == TestDovecotRunCheck(script, [op |-> "test_script_run"], rd).val

\* the script compiled last on rd executes without error on a copy of rd
RunsClean(rd) ==
    /\ rd.testScript # None
    /\ ExecBlock(rd.testScript[1], rd.testScript[1].cmds, Copy(rd)).err = NoErr

\* C29: in a sequence of test_script_compile and test_script_run on one
\* RuntimeData, test_script_run returns true only if the most recent
\* test_script_compile succeeded and the script it compiled executes without
\* error; after a compile that failed, and before any compile, it returns
\* false (tst holds the most recent test_script_compile and its result)
C29_RunFollowsLastCompile ==
    [][(steps' = steps + 1 /\ cmd'.name = "if" /\ cmd'.c \in RunLoaded)
        => /\ RunResult(d) => (tst # NoTest /\ tst.res /\ RunsClean(d))
           /\ (tst = NoTest \/ ~tst.res) => ~RunResult(d)]_vars

\* ---------------------------------------------------- failing host methods
\* the host's message, failing on the header fields of F
HostMessage(F) == [Size |-> 1, Header |-> EditMessage.Header, Failing |-> F]

\* the host whose MailboxChecker knows m1 and fails on m2
HostPolicy ==
    [HasCreator |-> FALSE, Created |-> {}, HasChecker |-> TRUE,
     Existing |-> {"m1"}, Failing |-> {"m2"}, Calls |-> <<>>]

\* loaded tests whose first step is a call of a host method
HostAtoms ==
    {[op |-> "exists", Fields |-> f] : f \in {<<"X-Test">>, <<"Subject">>, <<"x-test", "Subject">>}}
    \cup {[op |-> "header", matcher |-> [newMatcherTest EXCEPT !.key = <<"a">>], Header |-> h] :
            h \in {<<"X-Test">>, <<"Subject", "X-Test">>}}
    \cup {[op |-> "mailboxexists", Mailboxes |-> l] : l \in {<<"m2">>, <<"m1">>, <<"m2", "m1">>}}

\* the atoms, and tests that reach an atom through not, allof and anyof
HostTests ==
    HostAtoms
    \cup {[op |-> "not", Test |-> a] : a \in HostAtoms}
    \cup {[op |-> "allof", Tests |-> <<[op |-> "true"], a>>] : a \in HostAtoms}
    \cup {[op |-> "anyof", Tests |-> <<[op |-> "false"], a>>] : a \in HostAtoms}
    \cup {[op |-> "not", Test |-> [op |-> "anyof", Tests |-> <<[op |-> "not", Test |-> a]>>]] :
            a \in HostAtoms}

\* deleteheader commands with value patterns, which read the field
HostDeleteCmds ==
    {[name |-> "deleteheader", field |-> f, index |-> i, last |-> FALSE,
      match |-> <<"is">>, patterns |-> <<"a">>] :
        f \in {"X-Test", "Subject"}, i \in {None, Some(1)}}

HostAddCmds ==
    {[name |-> "addheader", last |-> FALSE, field |-> f, value |-> "a"] :
        f \in {"X-Test", "Subject"}}

InitHost ==
    /\ LET r == LoadScript({"editheader", "mailbox"}, <<>>, DefaultInterpOptions, HostAll)
       IN /\ r.err = NoErr
          /\ script = [extensions |-> r.val.extensions, opts |-> r.val.opts]
    /\ \E F \in {{}, {"X-Test"}, {"Subject"}} :
          d = NewRuntimeData(HostPolicy, [From |-> "a@x", To |-> "to@x", Auth |-> ""],
                             HostMessage(F), <<Instant2026>>)
    /\ pc = "run"
    /\ steps = 0
    /\ cmd = NoCmd
    /\ err = NoErr
    /\ tst = NoTest
    /\ ran = FALSE
    /\ acted = FALSE
    /\ ld = NoLoad
    /\ rx = NoRegex

\* the test t was checked and returned r
Checked(t, r) ==
    /\ d' = r.d
    /\ err' = r.err
    /\ pc' = After(r.err)
    /\ tst' = [test |-> t, res |-> r.val]

\* a test is checked on d, as the test of an `if` with an empty block
HostCheck ==
    /\ pc = "run"
    /\ steps < MaxSteps
    /\ \E t \in HostTests : Checked(t, Check(script, t, d))
    /\ cmd' = [name |-> "check"]
    /\ steps' = steps + 1
    /\ UNCHANGED <<script, ran, acted, ld, rx>>

HostDeleteHeader == pc = "run" /\ \E p \in HostDeleteCmds : Step(p)
HostAddHeader == pc = "run" /\ \E p \in HostAddCmds : Step(p)

NextHost == HostCheck \/ HostDeleteHeader \/ HostAddHeader \/ Finish

SpecHost == InitHost /\ [][NextHost]_vars

RECURSIVE AtomOf(_)
\* the atom a test of HostTests reaches
AtomOf(t) ==
    IF t.op = "not" THEN AtomOf(t.Test)
    ELSE IF t.op \in {"allof", "anyof"} THEN AtomOf(t.Tests[Len(t.Tests)])
    ELSE t

\* the error the host raises at the first call the atom makes on dd
FirstCallErr(a, dd) ==
    CASE a.op = "exists" -> MessageHeaderErr(dd.Msg, a.Fields[1])
      [] a.op = "header" -> MessageHeaderErr(dd.Msg, a.Header[1])
      [] a.op = "mailboxexists" ->
            IF dd.Policy.HasChecker /\ a.Mailboxes[1] \in dd.Policy.Failing
            THEN "MailboxExists: host error" ELSE NoErr

\* a test whose host call fails returns the host's error, through not, allof
\* and anyof
TestsPropagate ==
    [][(steps' = steps + 1 /\ cmd'.name = "check"
          /\ FirstCallErr(AtomOf(tst'.test), d) # NoErr)
        => (err' = FirstCallErr(AtomOf(tst'.test), d) /\ pc' = "failed" /\ ~tst'.res)]_vars

\* a command whose host call fails returns the host's error
CommandsPropagate ==
    [][(steps' = steps + 1 /\ cmd'.name = "deleteheader"
          /\ MessageHeaderErr(d.Msg, cmd'.field) # NoErr)
        => (err' = MessageHeaderErr(d.Msg, cmd'.field) /\ pc' = "failed")]_vars

\* C21: an error raised by a host method (Message.HeaderGet,
\* MailboxChecker.MailboxExists) while a test or command runs is returned
\* unchanged by the test or command that made the call and by the enclosing
\* not, allof and anyof tests; no command reports success in its place
C21_HostErrorsPropagate ==
    [][/\ (steps' = steps + 1 /\ cmd'.name = "check"
             /\ FirstCallErr(AtomOf(tst'.test), d) # NoErr)
          => (err' = FirstCallErr(AtomOf(tst'.test), d) /\ pc' = "failed")
       /\ (steps' = steps + 1 /\ cmd'.name = "deleteheader"
             /\ MessageHeaderErr(d.Msg, cmd'.field) # NoErr)
          => (err' = MessageHeaderErr(d.Msg, cmd'.field) /\ pc' = "failed")]_vars

\* ------------------------------------------------- the journal of one field
\* addheader commands on Subject, with and without :last, one of them with
\* an empty value, and one on another field
JournalAddCmds ==
    {[name |-> "addheader", last |-> o.last, field |-> o.field, value |-> o.value] :
        o \in {[field |-> "Subject", value |-> "", last |-> FALSE],
               [field |-> "Subject", value |-> "b", last |-> FALSE],
               [field |-> "Subject", value |-> " a ", last |-> TRUE],
               [field |-> "Subject", value |-> "", last |-> TRUE],
               [field |-> "X-Test", value |-> "a", last |-> FALSE]}}

\* deleteheader commands on Subject: by value patterns, by :index, by both
JournalDeleteCmds ==
    {[name |-> "deleteheader", field |-> "Subject", index |-> o.index, last |-> o.last,
      match |-> o.match, patterns |-> o.patterns] :
        o \in {[index |-> None, last |-> FALSE, match |-> <<"is">>, patterns |-> <<"">>],
               [index |-> None, last |-> FALSE, match |-> <<"is">>, patterns |-> <<"a">>],
               [index |-> None, last |-> FALSE, match |-> <<"contains">>,
                patterns |-> <<"ab", "b">>],
               [index |-> Some(1), last |-> FALSE, match |-> <<>>, patterns |-> <<>>],
               [index |-> Some(1), last |-> TRUE, match |-> <<>>, patterns |-> <<>>],
               [index |-> Some(3), last |-> FALSE, match |-> <<>>, patterns |-> <<>>],
               [index |-> Some(2), last |-> FALSE, match |-> <<"is">>, patterns |-> <<"b">>],
               [index |-> Some(1), last |-> TRUE, match |-> <<"is">>, patterns |-> <<"b">>]}}
    \cup {[name |-> "deleteheader", field |-> "Subject", index |-> i, last |-> FALSE,
            match |-> <<"count">>, relational |-> "ge", comparator |-> "i;ascii-numeric",
            patterns |-> <<"1">>] : i \in {None, Some(1)}}

JournalAdd == pc = "run" /\ \E p \in JournalAddCmds : Step(p)
JournalDelete == pc = "run" /\ \E p \in JournalDeleteCmds : Step(p)

NextJournal == JournalAdd \/ JournalDelete \/ Finish

\* the evaluations of SpecEdit, with the commands above
SpecJournal == InitEdit /\ [][NextJournal]_vars

\* the effective view of the field N in dd
View(dd, N) == HeaderGet(dd, N).values

\* the value, trimmed of white space, matches one of the patterns of the
\* deleteheader p
PatternHit(p, v) ==
    \E i \in 1..Len(p.patterns) :
        testString("i;ascii-casemap", p.match[1], "", TrimSpace(Bytes(v)),
                   Bytes(p.patterns[i]), NoRx).val

\* this step executes a deleteheader with value patterns
DeletesByPattern(p) == p.name = "deleteheader" /\ p.patterns # <<>>

\* C25: deleteheader with value patterns and without :index removes from the
\* effective view of the field exactly the occurrences whose trimmed value
\* matches a pattern; the others remain, in their order, also when a matching
\* occurrence is the empty string
C25_PatternDeleteRemovesMatching ==
    [][(steps' = steps + 1 /\ DeletesByPattern(cmd') /\ cmd'.index = None)
        => View(d', cmd'.field)
             = SelectSeq(View(d, cmd'.field), LAMBDA v : ~PatternHit(cmd', v))]_vars

\* the position :index N [:last] names in a view of n occurrences, 1-based
Named(p, n) == IF p.last THEN n + 1 - p.index[1] ELSE p.index[1]

\* the view without its k-th occurrence
Without(v, k) == [i \in 1..(Len(v) - 1) |-> IF i < k THEN v[i] ELSE v[i + 1]]

\* C26: deleteheader :index N [:last] removes the N-th occurrence, from the
\* start or from the end, of the effective view at the moment it executes,
\* with value patterns only if that occurrence matches one; an N beyond the
\* number of occurrences changes nothing; :last without :index does not load
C26_IndexDeleteRemovesNth ==
    [][/\ (steps' = steps + 1 /\ cmd'.name = "deleteheader" /\ cmd'.index # None)
          => LET v == View(d, cmd'.field)
                 k == Named(cmd', Len(v))
             IN View(d', cmd'.field) =
                  IF k \in 1..Len(v) /\ (cmd'.patterns = <<>> \/ PatternHit(cmd', v[k]))
                  THEN Without(v, k) ELSE v
       /\ \A p \in JournalDeleteCmds :
             loadCmd(script, [p EXCEPT !.index = None, !.last = TRUE]).err # NoErr]_vars

RECURSIVE Reverse(_)
Reverse(seq) == IF seq = <<>> THEN <<>> ELSE Reverse(Tail(seq)) \o <<Head(seq)>>

\* the values the addheader entries for N add, with or without :last
Added(N, last) ==
    LET es == SelectSeq(d.HeaderEdits,
                        LAMBDA e : EqualFold(e.FieldName, N) /\ e.Action = "add"
                                   /\ e.Last = last)
    IN [i \in 1..Len(es) |-> es[i].Value]

\* C27: addheader without :last puts the value in front of the current values
\* of the field, addheader :last after them; after a sequence of addheader
\* commands the view lists the additions without :last in reverse order of
\* execution, the base values, and the :last additions in order of execution
C27_AddHeaderOrder ==
    [][/\ (steps' = steps + 1 /\ cmd'.name = "addheader")
          => View(d', cmd'.field) =
               IF cmd'.last THEN View(d, cmd'.field) \o <<cmd'.value>>
               ELSE <<cmd'.value>> \o View(d, cmd'.field)
       /\ (\A i \in 1..Len(d'.HeaderEdits) : d'.HeaderEdits[i].Action = "add")
          => \A N \in {"Subject", "X-Test"} :
                View(d', N) = Reverse(Added(N, FALSE))' \o MessageHeaderGet(EditMessage, N)
                                \o Added(N, TRUE)']_vars

\* two values were added in front of Subject and one after it
C27_Witness ==
    /\ steps = 3
    /\ cmd.name = "addheader"
    /\ View(d, "Subject") = <<"b", "", "a", "b", " a ">>

\* ------------------------------------------------ evaluation of the tests
\* the message of the evaluations: two To values with three addresses, a Cc
\* with a bare angle-bracket value and a value that does not parse, and a
\* Date with one date
MatchMessage ==
    [Size |-> 1,
     Header |-> <<[name |-> "To", values |-> <<"u@x, u+d@x", "u@x (c)">>],
                  [name |-> "Cc", values |-> <<"<u@x>", "bad">>],
                  [name |-> "Subject", values |-> <<"a", "b">>],
                  [name |-> "Date", values |-> <<"bad", "1 Apr 1997 09:06:31 -0800">>]>>]

\* the matchers of the tests: :is on one key, and :count with a relational
\* operator on a numeric key
IsMatchers ==
    {[comparator |-> "i;ascii-casemap", match |-> "is", relational |-> "", key |-> <<k>>] :
        k \in {"", "u", "d", "d+e", "u+d", "bad"}}

CountMatchers ==
    {[comparator |-> "i;ascii-numeric", match |-> "count", relational |-> r, key |-> <<k>>] :
        r \in {"ge", "eq"}, k \in {"0", "1", "2", "3"}}

EnvelopeChecks ==
    {[op |-> "envelope", matcher |-> mt, AddressPart |-> p, Field |-> f] :
        mt \in IsMatchers, p \in {"all", "localpart", "user", "detail"},
        f \in {<<"from">>, <<"To">>, <<"from", "to">>}}
    \cup {[op |-> "envelope", matcher |-> mt, AddressPart |-> "all", Field |-> f] :
        mt \in CountMatchers, f \in {<<"from">>, <<"from", "to">>, <<"from", "to", "auth">>}}

AddressChecks ==
    {[op |-> "address", matcher |-> mt, AddressPart |-> p, Header |-> h] :
        mt \in IsMatchers, p \in {"all", "user", "detail"},
        h \in {<<"To">>, <<"cc">>, <<"from">>}}
    \cup {[op |-> "address", matcher |-> mt, AddressPart |-> "all", Header |-> h] :
        mt \in CountMatchers, h \in {<<"to">>, <<"to", "Cc">>, <<"Subject", "from">>}}

\* matchers over the comparators and match-types of testString
TableMatchers ==
    {[comparator |-> c, match |-> mm, relational |-> "", key |-> <<k>>] :
        c \in {"i;octet", "i;ascii-casemap", "i;ascii-numeric", "i;unicode-casemap"},
        mm \in {"is", "contains", "matches", "regex"}, k \in {"A", "1"}}
    \cup {[comparator |-> c, match |-> "value", relational |-> "gt", key |-> <<"A">>] :
        c \in {"i;octet", "i;ascii-numeric"}}

HeaderChecks ==
    {[op |-> "header", matcher |-> mt, Header |-> h] :
        mt \in CountMatchers \cup {mt \in IsMatchers : mt.key = <<"bad">>},
        h \in {<<"Subject">>, <<"Subject", "cc">>, <<"from">>}}
    \cup {[op |-> "header", matcher |-> mt, Header |-> <<"Subject">>] : mt \in TableMatchers}

\* the zones of the date tests: none, UTC, the zone of the Date header, and
\* a zone in which that date falls on the next day
DateZones ==
    {None, Some(<<"+", "0", "0", "0", "0">>), Some(<<"-", "0", "8", "0", "0">>),
     Some(<<"+", "1", "5", "0", "0">>)}

\* :is matchers on the texts of date parts
DatePartMatchers ==
    {[comparator |-> "i;ascii-casemap", match |-> "is", relational |-> "", key |-> <<k>>] :
        k \in {"1997", "09", "17", "02", "2026"}}

DateChecks ==
    {[op |-> "date", matcher |-> mt, Header |-> "date", Index |-> 0, Last |-> FALSE,
      Zone |-> None, OriginalZone |-> FALSE, DatePart |-> "year"] :
        mt \in CountMatchers}
    \cup {[op |-> "date", matcher |-> mt, Header |-> "date", Index |-> i, Last |-> FALSE,
           Zone |-> z, OriginalZone |-> o, DatePart |-> dp] :
             mt \in DatePartMatchers, i \in {0, 2}, z \in DateZones, o \in BOOLEAN,
             dp \in {"year", "Hour", "day", "fortnight"}}

CurrentDateChecks ==
    {[op |-> "currentdate", matcher |-> mt, Zone |-> z, DatePart |-> dp] :
        mt \in DatePartMatchers
               \cup {[comparator |-> "i;ascii-numeric", match |-> "count",
                      relational |-> "ge", key |-> <<"1">>]},
        z \in DateZones, dp \in {"year", "hour", "fortnight"}}

\* tests that read the clock twice
ClockChecks ==
    {[op |-> o, Tests |-> <<[op |-> "currentdate", matcher |-> a, Zone |-> None,
                            DatePart |-> "year"],
                           [op |-> "currentdate", matcher |-> b, Zone |-> None,
                            DatePart |-> "year"]>>] :
        o \in {"allof", "anyof"},
        a \in {mt \in DatePartMatchers : mt.key = <<"2026">>},
        b \in {mt \in DatePartMatchers : mt.key = <<"1997">>}}

\* the readings the host's clock gives during an evaluation: one that
\* stays, and two that differ from one call of time.Now to the next
Clocks ==
    {<<Instant2026>>, <<Instant1997>>, <<Instant2026, Instant1997>>,
     <<Instant1997, Instant2026>>}

\* test_set commands on the envelope: valid and invalid addresses
MatchTestSets ==
    {[op |-> "test_set", VariableName |-> "envelope.from", VariableValue |-> v] :
        v \in {"<u+d@x>", "<>", "bad", "u+d+e@x", "u+@x", "<u@x@x>"}}
    \cup {[op |-> "test_set", VariableName |-> "envelope.to", VariableValue |-> v] :
        v \in {"bad", "<@h:u@x>", "u@"}}

InitMatch ==
    /\ script = [extensions |-> {"envelope", "subaddress", "relational", "date",
                                 "vnd.dovecot.testsuite"},
                 opts |-> DovecotOptions]
    /\ \E clock \in Clocks :
          d = NewRuntimeData([HasCreator |-> FALSE, Created |-> {}],
                             [From |-> "u@x", To |-> "u+d@x", Auth |-> "u"],
                             MatchMessage, clock)
    /\ pc = "run"
    /\ steps = 0
    /\ cmd = NoCmd
    /\ err = NoErr
    /\ tst = NoTest
    /\ ran = FALSE
    /\ acted = FALSE
    /\ ld = NoLoad
    /\ rx = NoRegex

\* the test t of the script's last command has returned r and left the
\* RuntimeData dd
MatchedWith(t, r, dd) ==
    /\ steps < MaxSteps
    /\ tst' = [test |-> t, res |-> r.val]
    /\ err' = r.err
    /\ pc' = IF r.err = NoErr THEN "done" ELSE After(r.err)
    /\ cmd' = [name |-> t.op]
    /\ steps' = steps + 1
    /\ d' = dd
    /\ UNCHANGED <<script, ran, acted, ld, rx>>

Matched(t, r) == MatchedWith(t, r, d)

\* Check has returned r for the test t
MatchedAfter(t, r) == MatchedWith(t, r, r.d)

CheckEnvelope ==
    pc = "run" /\ \E t \in EnvelopeChecks : Matched(t, EnvelopeTestCheck(script, t, d))
CheckAddress ==
    pc = "run" /\ \E t \in AddressChecks : Matched(t, AddressTestCheck(script, t, d))
CheckHeader ==
    pc = "run" /\ \E t \in HeaderChecks : Matched(t, HeaderTestCheck(script, t, d))
CheckDate ==
    pc = "run" /\ \E t \in DateChecks : Matched(t, DateTestCheck(script, t, d))
CheckCurrentDate ==
    pc = "run" /\ \E t \in CurrentDateChecks \cup ClockChecks :
                      MatchedAfter(t, Check(script, t, d))

\* test_set on the envelope
MatchTestSet ==
    /\ pc = "run"
    /\ steps < MaxSteps
    /\ \E c \in MatchTestSets :
          /\ d' = ExecDovecotTestSet(script, c, d).d
          /\ cmd' = [name |-> c.op, c |-> c]
    /\ steps' = steps + 1
    /\ UNCHANGED <<script, pc, err, tst, ran, acted, ld, rx>>

NextMatch ==
    \/ CheckEnvelope \/ CheckAddress \/ CheckHeader \/ CheckDate \/ CheckCurrentDate
    \/ MatchTestSet

SpecMatch == InitMatch /\ [][NextMatch]_vars

\* ----------------------------------------------------- matching properties
\* header, address, envelope and date tests with :count return without
\* reaching testString
CountAggregated ==
    (cmd.name \in {"header", "address", "envelope", "date"}) => err # PanicCount

\* C30: no evaluation of a test reaches testString with the match-type
\* count, which panics: header, address, envelope, date and currentdate
\* aggregate a count and compare it before any string is matched
C30_CountNeverReachesTestString == err # PanicCount

\* an envelope test has been checked on the envelope of d
EnvelopeChecked == cmd.name = "envelope" /\ err = NoErr
\* an address test has been checked on the message of d
AddressChecked == cmd.name = "address" /\ err = NoErr

\* the values of the envelope parts an envelope test lists, in order
FieldValues(t, rd) ==
    [i \in 1..Len(t.Field) |-> EnvelopeValue(rd, toLowerASCII(Bytes(t.Field[i])))]

\* the listed parts whose value is not an address parseEnvelopeAddress
\* rejects
ValidFields(t, rd) ==
    {i \in 1..Len(t.Field) :
        ~InvalidEnvelope(toLowerASCII(Bytes(t.Field[i])), FieldValues(t, rd)[i])}

\* one of the keys of the matcher is the text bs
KeyIs(mt, bs) == \E i \in 1..Len(mt.key) : toLowerASCII(Bytes(mt.key[i])) = toLowerASCII(bs)

\* the local part of an address: empty for the empty address, none for an
\* address that does not split
LocalPart(address) ==
    IF address = <<>> THEN Some(<<>>)
    ELSE IF split(address).err # NoErr THEN None
    ELSE Some(split(address).mailbox)

\* the text of the local part before and after its first separator
BeforeFirst(lp) == SubSeq(lp, 1, IndexByte(lp, SubaddressSeparator) - 1)
AfterFirst(lp) == SubSeq(lp, IndexByte(lp, SubaddressSeparator) + 1, Len(lp))

\* what :user and :detail compare for an address: with a separator in the
\* local part, the text before and after its first occurrence; without one,
\* :user the whole local part and :detail nothing
SubPart(part, address) ==
    IF LocalPart(address) = None THEN None
    ELSE IF IndexByte(LocalPart(address)[1], SubaddressSeparator) = 0
    THEN IF part = "user" THEN LocalPart(address) ELSE None
    ELSE IF part = "user" THEN Some(BeforeFirst(LocalPart(address)[1]))
    ELSE Some(AfterFirst(LocalPart(address)[1]))

\* the addresses an address test hands to testAddress for the header h
HeaderAddresses(rd, h) ==
    IF Str(toLowerASCII(Bytes(h))) \notin allowedAddrHeaders THEN {}
    ELSE IF MessageHeaderGet(rd.Msg, h) = <<>> THEN {<<>>}
    ELSE UNION {LET clean == stripRFC2822Comments(Bytes(MessageHeaderGet(rd.Msg, h)[i]))
                IN IF hasBareAngleBrackets(clean) \/ ParseAddressList[Str(clean)].err # NoErr
                   THEN {clean}
                   ELSE {Bytes(a) : a \in Range(ParseAddressList[Str(clean)].val)} :
                i \in 1..Len(MessageHeaderGet(rd.Msg, h))}

\* the addresses the test checked last was about
AddressesTested ==
    IF cmd.name = "envelope"
    THEN {Bytes(FieldValues(tst.test, d)[i]) : i \in ValidFields(tst.test, d)}
    ELSE UNION {HeaderAddresses(d, tst.test.Header[i]) : i \in 1..Len(tst.test.Header)}

\* a test on :user or :detail has been checked
SubaddressChecked ==
    /\ EnvelopeChecked \/ AddressChecked
    /\ ~isCount(tst.test.matcher)
    /\ tst.test.AddressPart \in {"user", "detail"}

\* C22: with :detail an address or envelope test matches no key, the empty
\* string included, on an address without a subaddress separator, and :user
\* compares the whole local part of such an address; with a separator the
\* local part is split at its first occurrence into user and detail
C22_DetailNeedsSeparator ==
    SubaddressChecked =>
        tst.res = \E a \in AddressesTested :
                      /\ SubPart(tst.test.AddressPart, a) # None
                      /\ KeyIs(tst.test.matcher, SubPart(tst.test.AddressPart, a)[1])

\* the same for the addresses that are not empty; the empty address is
\* compared as the empty string, whatever the address part
SubaddressOfNonEmpty ==
    SubaddressChecked =>
        tst.res = \E a \in AddressesTested :
                      \/ a = <<>> /\ KeyIs(tst.test.matcher, <<>>)
                      \/ /\ SubPart(tst.test.AddressPart, a) # None
                         /\ KeyIs(tst.test.matcher, SubPart(tst.test.AddressPart, a)[1])

\* the last command was test_set on envelope.from or envelope.to with a
\* value that parseEnvelopeAddress rejects
InvalidSet(part) ==
    /\ cmd.name = "test_set"
    /\ cmd.c.VariableName = part
    /\ parseEnvelopeBytes(Bytes(cmd.c.VariableValue)).err # NoErr

\* C23: an envelope test never returns true on account of a from or to value
\* that parseEnvelopeAddress rejects, and with :count does not count it: its
\* result is that of the listed parts with a valid value; the invalid value
\* itself stays in the envelope as test_set stored it
C23_InvalidEnvelopeExcluded ==
    /\ (EnvelopeChecked /\ ~isCount(tst.test.matcher))
          => tst.res = \E i \in ValidFields(tst.test, d) :
                          testAddress(script, d, tst.test.matcher, tst.test.AddressPart,
                                      Bytes(FieldValues(tst.test, d)[i])).val
    /\ (EnvelopeChecked /\ isCount(tst.test.matcher))
          => tst.res = countMatches(script, d, tst.test.matcher,
                          Cardinality({i \in ValidFields(tst.test, d) :
                                          FieldValues(tst.test, d)[i] # ""}))
    /\ InvalidSet("envelope.from") => d.Envelope.From = cmd.c.VariableValue
    /\ InvalidSet("envelope.to") => d.Envelope.To = cmd.c.VariableValue

\* the sender "bad" is stored in the envelope, and a test of the whole
\* address against the key "bad" did not match
C23_Witness ==
    /\ EnvelopeChecked
    /\ d.Envelope.From = "bad"
    /\ tst.test.Field = <<"from">>
    /\ tst.test.AddressPart = "all"
    /\ tst.test.matcher.key = <<"bad">>
    /\ ~tst.res

RECURSIVE SumSeq(_)
SumSeq(ns) == IF ns = <<>> THEN 0 ELSE Head(ns) + SumSeq(Tail(ns))

\* the number of addresses of one header value: those of a list that parses
ValueAddresses(v) ==
    IF hasBareAngleBrackets(stripRFC2822Comments(Bytes(v))) THEN 0
    ELSE IF ParseAddressList[Str(stripRFC2822Comments(Bytes(v)))].err # NoErr THEN 0
    ELSE Len(ParseAddressList[Str(stripRFC2822Comments(Bytes(v)))].val)

\* the number of valid entries the test t counts on rd
ValidEntries(t, rd) ==
    CASE t.op = "header" ->
            SumSeq([i \in 1..Len(t.Header) |-> Len(MessageHeaderGet(rd.Msg, t.Header[i]))])
      [] t.op = "address" ->
            SumSeq([i \in 1..Len(t.Header) |->
                IF Str(toLowerASCII(Bytes(t.Header[i]))) \notin allowedAddrHeaders THEN 0
                ELSE SumSeq([j \in 1..Len(MessageHeaderGet(rd.Msg, t.Header[i])) |->
                               ValueAddresses(MessageHeaderGet(rd.Msg, t.Header[i])[j])])])
      [] t.op = "envelope" ->
            Cardinality({i \in ValidFields(t, rd) : FieldValues(t, rd)[i] # ""})
      [] t.op = "date" ->
            Cardinality({i \in 1..Len(MessageHeaderGet(rd.Msg, t.Header)) :
                            DateParses(MessageHeaderGet(rd.Msg, t.Header)[i])})

\* a test with :count has been checked
CountChecked ==
    /\ cmd.name \in {"header", "address", "envelope", "date"}
    /\ err = NoErr
    /\ isCount(tst.test.matcher)

\* C24: with :count a test compares the number of valid entries with the
\* key by the relational operator: header counts every value of every
\* listed header, address the addresses parsed from allow-listed headers,
\* envelope the parts with a non-empty valid value, date the header values
\* that parse as a date
C24_CountsValidEntries ==
    CountChecked =>
        tst.res = CompareNumericValue(tst.test.matcher.relational,
                                      Some(ValidEntries(tst.test, d)),
                                      numericValue(Bytes(tst.test.matcher.key[1])))

\* the four values of Subject and Cc counted together are not fewer than three
C24_Witness ==
    /\ CountChecked
    /\ cmd.name = "header"
    /\ tst.test.Header = <<"Subject", "cc">>
    /\ tst.test.matcher.relational = "ge"
    /\ tst.test.matcher.key = <<"3">>
    /\ tst.res

====
